---- MODULE Spec2Model ----
(***************************************************************************)
(* Model of the content extraction pipeline (src/content_extractor.py)     *)
(* and of the citation registry (src/citation_manager.py).                 *)
(*                                                                         *)
(* Python strings are modelled as sequences of one-character strings, so   *)
(* that slicing, searching, splitting and joining are computed and not     *)
(* assumed.  The specifications share the variables:                       *)
(*   SpecText     _format_result's truncation and _generate_summary,       *)
(*                applied to every bounded content and budget;             *)
(*   SpecExtract  extract_multiple_urls driving extract_content and the    *)
(*                three strategies, one step per strategy call;            *)
(*   SpecRegistry sequences of CitationManager.add_source calls;           *)
(*   SpecYear     CitationManager._extract_year on every bounded string;   *)
(*   SpecTools    scrape_multiple_urls_adaptive (src/tools.py);            *)
(*   SpecCitations  a CitationManager under all of its operations.         *)
(***************************************************************************)
EXTENDS Integers, Sequences, FiniteSets, TLC

VARIABLES
    content,             \* text: the extracted content handed to the function
    max_length,          \* text: the budget argument
    op,                  \* text: which function has been applied ("none" before)
    out,                 \* text: the string the function returned
    urls,                \* batch: the list given to extract_multiple_urls
    max_length_per_url,  \* batch: its budget argument
    idx,                 \* batch: 1-based position of the for loop
    results,             \* batch: the results dict, a function url -> document
    batchPc,             \* batch: "loop", "extracting", "sleep", "done", "raised"
    pc,                  \* extract_content: "idle", "newspaper", "readability",
                         \*   "beautifulsoup", "returned", "raised"
    attempted,           \* extract_content: strategies called so far, with outcome
    doc,                 \* extract_content: the document it returned
    trace,               \* batch: what extract_multiple_urls did so far, in order
    sources,             \* registry: self.sources, entries in insertion order
    citations,           \* registry: self.citations
    log,                 \* registry: one record per add_source call
    ret,                 \* registry: what the last CitationManager call returned
    date_string,         \* year: the argument of _extract_year
    year,                \* year: what _extract_year returned
    tool_urls,           \* tools: the list given to scrape_multiple_urls_adaptive
    total_target_length, \* tools: its budget argument
    budgets,             \* tools: the budget of each scrape_url_content_smart call
    scraped_content,     \* tools: the dict it returned
    toolsPc,             \* tools: "idle", "called", "returned", "raised"
    html,                \* metadata: the page, selector -> element select_one finds
    page_metadata,       \* metadata: the metadata dict of _extract_metadata_from_html
    metaPc,              \* metadata: "idle", "author", "date", "done"
    selector,            \* metadata: 1-based position of the running for loop
    consulted,           \* metadata: the selectors given to select_one so far
    workers,             \* workers: per thread, where its add_source call stands
    locked               \* workers: whether the callers serialize add_source

textVars == <<content, max_length, op, out>>
extractVars == <<urls, max_length_per_url, idx, results, batchPc, pc, attempted, doc,
                 trace>>
registryVars == <<sources, citations, log, ret>>
yearVars == <<date_string, year>>
toolsVars == <<tool_urls, total_target_length, budgets, scraped_content, toolsPc>>
metaVars == <<html, page_metadata, metaPc, selector, consulted>>
workerVars == <<workers, locked>>
vars == <<content, max_length, op, out, urls, max_length_per_url, idx, results,
          batchPc, pc, attempted, doc, trace, sources, citations, log, ret,
          date_string, year, tool_urls, total_target_length, budgets,
          scraped_content, toolsPc, html, page_metadata, metaPc, selector,
          consulted, workers, locked>>

(***************************************************************************)
(* Bounds of the model.                                                    *)
(***************************************************************************)
MaxLen == 6        \* longest content string of SpecText
MaxBudget == 5     \* largest budget of SpecText
MaxUrls == 2       \* longest URL list of SpecExtract
MaxSources == 3    \* most add_source calls of SpecRegistry
MaxDateLen == 5    \* longest publish_date string of SpecYear
MaxToolUrls == 4   \* longest URL list of SpecTools
MaxTotal == 12     \* SpecTools tries every total target length up to this one
MaxTitleLen == 4   \* longest title of SpecCandidate
MaxElements == 2   \* most elements of a page that a selector matches
MaxCalls == 3      \* add_source calls the workers make together
MaxCited == 2      \* most add_source and add_citation calls of SpecCitations that return

None == "None"                \* Python's None in a field that holds a message
NoResult == [none |-> TRUE]   \* Python's None returned by a strategy
NoDate == <<"None">>          \* Python's None in publish_date

(***************************************************************************)
(* Python string primitives on character sequences.                        *)
(***************************************************************************)
Min(a, b) == IF a < b THEN a ELSE b
Max(a, b) == IF a > b THEN a ELSE b

\* s[:n], negative n counting from the end as Python does
Prefix(s, n) ==
    IF n >= 0 THEN SubSeq(s, 1, Min(n, Len(s)))
    ELSE SubSeq(s, 1, Max(Len(s) + n, 0))

\* s.rfind(c): 0-based index of the last occurrence, -1 when there is none
RFind(s, c) ==
    LET hits == {i \in 1..Len(s) : s[i] = c}
    IN IF hits = {} THEN -1
       ELSE (CHOOSE i \in hits : \A j \in hits : j <= i) - 1

\* s.endswith(c) for a one-character c
EndsWith(s, c) == Len(s) > 0 /\ s[Len(s)] = c

Whitespace == {" "}
Terminators == {".", "!", "?"}

RECURSIVE LStrip(_)
LStrip(s) ==
    IF Len(s) > 0 /\ s[1] \in Whitespace THEN LStrip(Tail(s)) ELSE s

RECURSIVE RStrip(_)
RStrip(s) ==
    IF Len(s) > 0 /\ s[Len(s)] \in Whitespace
    THEN RStrip(SubSeq(s, 1, Len(s) - 1)) ELSE s

\* s.strip()
Strip(s) == RStrip(LStrip(s))

\* sep.join(parts)
RECURSIVE Join(_, _)
Join(parts, sep) ==
    IF Len(parts) = 0 THEN <<>>
    ELSE IF Len(parts) = 1 THEN parts[1]
    ELSE parts[1] \o sep \o Join(Tail(parts), sep)

\* re.split(r'[.!?]+', s): the fragments between runs of terminators; a run at
\* the start or at the end of s leaves an empty fragment there.
RECURSIVE SplitFrom(_, _, _, _, _)
SplitFrom(s, i, cur, acc, inRun) ==
    IF i > Len(s) THEN Append(acc, cur)
    ELSE IF s[i] \in Terminators
         THEN IF inRun THEN SplitFrom(s, i + 1, cur, acc, TRUE)
              ELSE SplitFrom(s, i + 1, <<>>, Append(acc, cur), TRUE)
         ELSE SplitFrom(s, i + 1, Append(cur, s[i]), acc, FALSE)

SplitSentences(s) == SplitFrom(s, 1, <<>>, <<>>, FALSE)

(***************************************************************************)
(* ContentExtractor._format_result: the truncation of the content field.   *)
(* The float test last_period > max_length * 0.8 is the integer test       *)
(* 5 * last_period > 4 * max_length: max_length * 0.8 is exact in double   *)
(* arithmetic whenever 4 * max_length / 5 is an integer.                   *)
(***************************************************************************)
\* faulty variant: the slice content[:max_length] of line 252 is missing
FormatContentNoCut(c, m) ==
    IF Len(c) > m THEN c \o <<".", ".", ".">> ELSE c

\* faulty variant: line 254 with >= in place of >
FormatContentInclusive(c, m) ==
    IF Len(c) > m
    THEN LET cut == Prefix(c, m)
             last_period == RFind(cut, ".")
         IN IF 5 * last_period >= 4 * m
            THEN Prefix(cut, last_period + 1)
            ELSE cut \o <<".", ".", ".">>
    ELSE c

FormatContent(c, m) ==
    IF Len(c) > m
    THEN LET cut == Prefix(c, m)
             last_period == RFind(cut, ".")
         IN IF 5 * last_period > 4 * m
            THEN Prefix(cut, last_period + 1)
            ELSE cut \o <<".", ".", ".">>
    ELSE c

(***************************************************************************)
(* ContentExtractor._generate_summary.                                     *)
(***************************************************************************)
\* the for loop: the first sentence that is empty after strip(), or that
\* does not fit, ends the loop
RECURSIVE Accumulate(_, _, _, _)
Accumulate(sentences, summary_sentences, current_length, m) ==
    IF Len(sentences) = 0 THEN summary_sentences
    ELSE LET sentence == Strip(Head(sentences))
         IN IF Len(sentence) > 0 /\ current_length + Len(sentence) < m
            THEN Accumulate(Tail(sentences), Append(summary_sentences, sentence),
                            current_length + Len(sentence), m)
            ELSE summary_sentences

GenerateSummary(c, m) ==
    IF Len(c) = 0 THEN <<>>
    ELSE LET summary == Join(Accumulate(SplitSentences(c), <<>>, 0, m), <<".", " ">>)
         IN IF Len(summary) > 0 /\ ~EndsWith(summary, ".")
            THEN Append(summary, ".")
            ELSE summary

SummaryBudget == 300    \* default max_length of _generate_summary

(***************************************************************************)
(* urllib.parse.urlparse(url).netloc, as the code uses it: the scheme is   *)
(* the text before the first ':' when it is made of scheme characters and  *)
(* starts with a letter; the netloc is what follows "//" up to the first   *)
(* '/', '?' or '#'; a netloc with one bracket and not the other raises     *)
(* ValueError("Invalid IPv6 URL").                                         *)
(***************************************************************************)
LowerLetters ==
    <<"a", "b", "c", "d", "e", "f", "g", "h", "i", "j", "k", "l", "m",
      "n", "o", "p", "q", "r", "s", "t", "u", "v", "w", "x", "y", "z">>
UpperLetters ==
    <<"A", "B", "C", "D", "E", "F", "G", "H", "I", "J", "K", "L", "M",
      "N", "O", "P", "Q", "R", "S", "T", "U", "V", "W", "X", "Y", "Z">>
IsLower(c) == \E i \in 1..Len(LowerLetters) : LowerLetters[i] = c
IsUpper(c) == \E i \in 1..Len(UpperLetters) : UpperLetters[i] = c
Letters == {LowerLetters[i] : i \in 1..Len(LowerLetters)} \cup
           {UpperLetters[i] : i \in 1..Len(UpperLetters)}
Digits == {"0", "1", "2", "3", "4", "5", "6", "7", "8", "9"}
SchemeChars == Letters \cup Digits \cup {"+", "-", "."}

\* s.find(c) for a one-character c: 0-based index of the first occurrence, or -1
Find(s, c) ==
    LET hits == {i \in 1..Len(s) : s[i] = c}
    IN IF hits = {} THEN -1
       ELSE (CHOOSE i \in hits : \A j \in hits : i <= j) - 1

Contains(s, c) == \E i \in 1..Len(s) : s[i] = c

\* s[n:]
Suffix(s, n) == SubSeq(s, n + 1, Len(s))

AfterScheme(url) ==
    LET i == Find(url, ":")
    IN IF i > 0 /\ url[1] \in Letters /\ \A k \in 1..i : url[k] \in SchemeChars
       THEN Suffix(url, i + 1)
       ELSE url

Netloc(url) ==
    LET rest == AfterScheme(url)
    IN IF Len(rest) >= 2 /\ rest[1] = "/" /\ rest[2] = "/"
       THEN LET body == Suffix(rest, 2)
                ends == {i \in 1..Len(body) : body[i] \in {"/", "?", "#"}}
                delim == IF ends = {} THEN Len(body) + 1
                         ELSE CHOOSE i \in ends : \A j \in ends : i <= j
                netloc == SubSeq(body, 1, delim - 1)
            IN IF Contains(netloc, "[") # Contains(netloc, "]")
               THEN [raises |-> TRUE, netloc |-> <<>>]
               ELSE [raises |-> FALSE, netloc |-> netloc]
       ELSE [raises |-> FALSE, netloc |-> <<>>]

(***************************************************************************)
(* The URLs the model draws its inputs from.                               *)
(***************************************************************************)
UrlPlain == <<"h", ":", "/", "/", "a", ".", "c", "/", "p">>
UrlWww == <<"h", ":", "/", "/", "w", "w", "w", ".", "a", ".", "c", "/", "p">>
UrlMalformed == <<"h", ":", "/", "/", "[", "a">>
UrlUserPort == <<"h", ":", "/", "/", "u", "@", "a", ".", "c", ":", "8", "/", "p">>
UrlInnerWww == <<"h", ":", "/", "/", "a", ".", "w", "w", "w", ".", "c", "/", "p">>

(***************************************************************************)
(* The three strategies of ContentExtractor.  A strategy's network and     *)
(* parsing are the environment: the call ends in an exception inside its   *)
(* try block or in a page content, each for a URL that urlparse accepts;   *)
(* for a URL that urlparse rejects every try block ends in an exception    *)
(* (each evaluates urlparse(url).netloc before it returns).  Pages carry   *)
(* no author and no date element.                                          *)
(***************************************************************************)
PageContents == {<<>>, <<"a", ".">>, <<"a", ".", "b", "c", "d">>}
PageTitle == "Page title"

StrategyDict(url, c, summary, method) ==
    [title |-> PageTitle, summary |-> summary, content |-> c,
     author |-> "Unknown", publish_date |-> NoDate,
     domain |-> Netloc(url).netloc, extraction_method |-> method, error |-> None]

\* _extract_with_newspaper: a dict, or None after an exception
ExtractWithNewspaper(url) ==
    {NoResult} \cup
    (IF Netloc(url).raises THEN {}
     ELSE {StrategyDict(url, c, <<>>, "newspaper3k") : c \in PageContents})

\* _extract_with_readability: a dict, or None after an exception
ExtractWithReadability(url) ==
    {NoResult} \cup
    (IF Netloc(url).raises THEN {}
     ELSE {StrategyDict(url, c, GenerateSummary(c, SummaryBudget), "readability-lxml") :
              c \in PageContents})

\* the except block of _extract_with_beautifulsoup: its dict, unless
\* urlparse(url) raises inside it
BeautifulSoupFailed(url) ==
    IF Netloc(url).raises
    THEN [raised |-> TRUE, error |-> "Invalid IPv6 URL"]
    ELSE [raised |-> FALSE,
          value |-> [title |-> "Extraction Failed",
                     summary |-> <<"Could not extract content">>,
                     content |-> <<>>, author |-> "Unknown", publish_date |-> NoDate,
                     domain |-> Netloc(url).netloc,
                     extraction_method |-> "beautifulsoup_failed",
                     error |-> "fetch or parse error"]]

\* _extract_with_beautifulsoup: the dict of the try block (its content may be
\* empty), the dict of the except block, or the exception the except block raises
ExtractWithBeautifulSoup(url) ==
    {BeautifulSoupFailed(url)} \cup
    (IF Netloc(url).raises THEN {}
     ELSE {[raised |-> FALSE,
            value |-> StrategyDict(url, c, GenerateSummary(c, SummaryBudget),
                                   "beautifulsoup")] : c \in PageContents})

\* _format_result: the document, or the exception of urlparse(url)
FormatResult(result, url, m) ==
    IF Netloc(url).raises
    THEN [raised |-> TRUE, error |-> "Invalid IPv6 URL"]
    ELSE [raised |-> FALSE,
          value |-> [url |-> url, title |-> result.title, summary |-> result.summary,
                     content |-> FormatContent(result.content, m),
                     author |-> result.author, publish_date |-> result.publish_date,
                     domain |-> result.domain,
                     extraction_method |-> result.extraction_method,
                     error |-> result.error, website |-> Netloc(url).netloc]]

\* the except block of extract_content: the failure document, unless
\* urlparse(url) raises inside it
ExtractContentExcept(url, e) ==
    IF Netloc(url).raises
    THEN [raised |-> TRUE, error |-> "Invalid IPv6 URL"]
    ELSE [raised |-> FALSE,
          value |-> [url |-> url, title |-> "Content Extraction Failed",
                     summary |-> <<"Could not extract content">>, content |-> <<>>,
                     author |-> "Unknown", publish_date |-> NoDate,
                     domain |-> Netloc(url).netloc, extraction_method |-> "failed",
                     error |-> e, website |-> Netloc(url).netloc]]

\* return self._format_result(...) inside the try of extract_content
ReturnFormatted(result, url, m) ==
    LET r == FormatResult(result, url, m)
    IN IF r.raised THEN ExtractContentExcept(url, r.error) ELSE r

\* the test "result and result.get('content')" of extract_content
\* faulty variant: the early return on success is never taken
SucceededNever(r) == FALSE

Succeeded(r) == r # NoResult /\ r.content # <<>>

Outcome(r) ==
    IF r = NoResult THEN "none"
    ELSE IF r.content = <<>> THEN "empty" ELSE "content"

NoDoc == [extraction_method |-> "no document"]

(***************************************************************************)
(* Idle values: what a specification gives the variables it does not use.  *)
(***************************************************************************)
TextIdle ==
    content = <<>> /\ max_length = 0 /\ op = "none" /\ out = <<>>

ExtractIdle ==
    /\ urls = <<>> /\ max_length_per_url = 0 /\ idx = 1
    /\ results = <<>> /\ batchPc = "done" /\ pc = "idle"
    /\ attempted = <<>> /\ doc = NoDoc /\ trace = <<>>

NoReturn == [op |-> "none"]

RegistryIdle ==
    sources = <<>> /\ citations = <<>> /\ log = <<>> /\ ret = NoReturn

NotCalled == <<"not called">>

YearIdle ==
    date_string = <<>> /\ year = NotCalled

ToolsIdle ==
    /\ tool_urls = <<>> /\ total_target_length = 0 /\ budgets = <<>>
    /\ scraped_content = <<>> /\ toolsPc = "idle"

MetaIdle ==
    /\ html = <<>> /\ page_metadata = <<>> /\ metaPc = "idle"
    /\ selector = 1 /\ consulted = <<>>

WorkersIdle ==
    workers = <<>> /\ locked = FALSE

(***************************************************************************)
(* SpecText: _format_result's content and _generate_summary on every       *)
(* content of at most MaxLen characters and every budget up to MaxBudget.  *)
(***************************************************************************)
TextAlphabet == {"a", " ", ".", "?"}
Strings(A, n) == UNION {[1..k -> A] : k \in 0..n}
Budgets == (0 - 1)..MaxBudget

InitText ==
    /\ content \in Strings(TextAlphabet, MaxLen)
    /\ max_length \in Budgets
    /\ op = "none" /\ out = <<>>
    /\ ExtractIdle /\ RegistryIdle /\ YearIdle /\ ToolsIdle /\ MetaIdle /\ WorkersIdle

ApplyFormatResult ==
    /\ op = "none"
    /\ op' = "format"
    /\ out' = FormatContent(content, max_length)
    /\ UNCHANGED <<content, max_length>>
    /\ UNCHANGED <<extractVars, registryVars, yearVars, toolsVars, metaVars, workerVars>>

ApplyGenerateSummary ==
    /\ op = "none"
    /\ op' = "summary"
    /\ out' = GenerateSummary(content, max_length)
    /\ UNCHANGED <<content, max_length>>
    /\ UNCHANGED <<extractVars, registryVars, yearVars, toolsVars, metaVars, workerVars>>

NextText == ApplyFormatResult \/ ApplyGenerateSummary

SpecText == InitText /\ [][NextText]_vars

(***************************************************************************)
(* SpecExtract: extract_multiple_urls and, inside it, extract_content.     *)
(***************************************************************************)
ExtractUrls == {UrlPlain, UrlWww, UrlMalformed}
UrlLists == UNION {[1..k -> ExtractUrls] : k \in 0..MaxUrls}

InitExtract ==
    /\ urls \in UrlLists
    /\ max_length_per_url \in {3, 5}
    /\ idx = 1
    /\ results = <<>>
    /\ batchPc = "loop"
    /\ pc = "idle"
    /\ attempted = <<>>
    /\ doc = NoDoc
    /\ trace = <<>>
    /\ TextIdle /\ RegistryIdle /\ YearIdle /\ ToolsIdle /\ MetaIdle /\ WorkersIdle

\* results[url] = document
DictSet(d, k, v) == [x \in (DOMAIN d) \cup {k} |-> IF x = k THEN v ELSE d[x]]

\* how a call of extract_content ends: with a document or with an exception
Finish(r) ==
    IF r.raised
    THEN pc' = "raised" /\ doc' = NoDoc
    ELSE pc' = "returned" /\ doc' = r.value

\* one step of the batch: the call-th iteration of the loop did ev
Event(ev, call, strategy) == [ev |-> ev, call |-> call, strategy |-> strategy]

\* a strategy that fetches the page a second time when the first fetch failed
HttpGetRetried(t, call, strategy) ==
    Append(Append(t, Event("get", call, strategy)), Event("get", call, strategy))

\* article.download() / self.session.get(url, timeout=10): one request for the url
HttpGet(t, call, strategy) == Append(t, Event("get", call, strategy))

\* the trace after a strategy was attempted: its request (none leaves the
\* process for a url that urlparse rejects), then how extract_content ended
\* if it ended
Attempt(strategy, ended) ==
    LET t == IF Netloc(urls[idx]).raises THEN trace
             ELSE HttpGet(trace, idx, strategy)
    IN trace' = IF ended = "-" THEN t ELSE Append(t, Event(ended, idx, "-"))

\* faulty variant: the next extraction is entered while the loop still sleeps
StartExtractEager ==
    /\ \/ batchPc = "loop" /\ idx <= Len(urls) /\ idx' = idx
       \/ batchPc = "sleep" /\ idx < Len(urls) /\ idx' = idx + 1
    /\ batchPc' = "extracting"
    /\ pc' = "newspaper"
    /\ attempted' = <<>>
    /\ doc' = NoDoc
    /\ trace' = Append(trace, Event("start", idx', "-"))
    /\ UNCHANGED <<urls, max_length_per_url, results>>
    /\ UNCHANGED <<textVars, registryVars, yearVars, toolsVars, metaVars, workerVars>>

\* for url in urls: ... self.extract_content(url, max_length_per_url) is entered
StartExtract ==
    /\ batchPc = "loop" /\ idx <= Len(urls)
    /\ batchPc' = "extracting"
    /\ pc' = "newspaper"
    /\ attempted' = <<>>
    /\ doc' = NoDoc
    /\ trace' = Append(trace, Event("start", idx, "-"))
    /\ UNCHANGED <<urls, max_length_per_url, idx, results>>
    /\ UNCHANGED <<textVars, registryVars, yearVars, toolsVars, metaVars, workerVars>>

\* extract_content, lines 24-26
TryNewspaper ==
    /\ pc = "newspaper"
    /\ \E r \in ExtractWithNewspaper(urls[idx]) :
          /\ attempted' = Append(attempted,
                                 [strategy |-> "newspaper3k", outcome |-> Outcome(r)])
          /\ IF Succeeded(r)
             THEN Finish(ReturnFormatted(r, urls[idx], max_length_per_url))
             ELSE pc' = "readability" /\ doc' = doc
          /\ Attempt("newspaper3k", IF ~Succeeded(r) THEN "-"
                                   ELSE IF ReturnFormatted(r, urls[idx], max_length_per_url).raised
                                        THEN "raise" ELSE "return")
    /\ UNCHANGED <<urls, max_length_per_url, idx, results, batchPc>>
    /\ UNCHANGED <<textVars, registryVars, yearVars, toolsVars, metaVars, workerVars>>

\* extract_content, lines 28-30
TryReadability ==
    /\ pc = "readability"
    /\ \E r \in ExtractWithReadability(urls[idx]) :
          /\ attempted' = Append(attempted,
                                 [strategy |-> "readability-lxml", outcome |-> Outcome(r)])
          /\ IF Succeeded(r)
             THEN Finish(ReturnFormatted(r, urls[idx], max_length_per_url))
             ELSE pc' = "beautifulsoup" /\ doc' = doc
          /\ Attempt("readability-lxml", IF ~Succeeded(r) THEN "-"
                                   ELSE IF ReturnFormatted(r, urls[idx], max_length_per_url).raised
                                        THEN "raise" ELSE "return")
    /\ UNCHANGED <<urls, max_length_per_url, idx, results, batchPc>>
    /\ UNCHANGED <<textVars, registryVars, yearVars, toolsVars, metaVars, workerVars>>

\* extract_content, lines 32-33, and its except block
TryBeautifulSoup ==
    /\ pc = "beautifulsoup"
    /\ \E r \in ExtractWithBeautifulSoup(urls[idx]) :
          /\ attempted' = Append(attempted,
                [strategy |-> "beautifulsoup",
                 outcome |-> IF r.raised \/ r.value.error # None THEN "none"
                             ELSE Outcome(r.value)])
          /\ IF r.raised
             THEN Finish(ExtractContentExcept(urls[idx], r.error))
             ELSE Finish(ReturnFormatted(r.value, urls[idx], max_length_per_url))
          /\ Attempt("beautifulsoup",
                     IF r.raised
                     THEN (IF ExtractContentExcept(urls[idx], r.error).raised
                           THEN "raise" ELSE "return")
                     ELSE IF ReturnFormatted(r.value, urls[idx], max_length_per_url).raised
                          THEN "raise" ELSE "return")
    /\ UNCHANGED <<urls, max_length_per_url, idx, results, batchPc>>
    /\ UNCHANGED <<textVars, registryVars, yearVars, toolsVars, metaVars, workerVars>>

\* results[url] = <the returned document>
StoreResult ==
    /\ batchPc = "extracting" /\ pc = "returned"
    /\ results' = DictSet(results, urls[idx], doc)
    /\ batchPc' = "sleep"
    /\ pc' = "idle"
    /\ trace' = Append(trace, Event("store", idx, "-"))
    /\ UNCHANGED <<urls, max_length_per_url, idx, attempted, doc>>
    /\ UNCHANGED <<textVars, registryVars, yearVars, toolsVars, metaVars, workerVars>>

\* an exception of extract_content leaves extract_multiple_urls: nothing catches it
PropagateException ==
    /\ batchPc = "extracting" /\ pc = "raised"
    /\ batchPc' = "raised"
    /\ UNCHANGED <<urls, max_length_per_url, idx, results, pc, attempted, doc, trace>>
    /\ UNCHANGED <<textVars, registryVars, yearVars, toolsVars, metaVars, workerVars>>

\* time.sleep(1), then the next iteration
Sleep ==
    /\ batchPc = "sleep"
    /\ idx' = idx + 1
    /\ batchPc' = "loop"
    /\ trace' = Append(trace, Event("sleep", idx, "-"))
    /\ UNCHANGED <<urls, max_length_per_url, results, pc, attempted, doc>>
    /\ UNCHANGED <<textVars, registryVars, yearVars, toolsVars, metaVars, workerVars>>

\* return results
BatchReturn ==
    /\ batchPc = "loop" /\ idx > Len(urls)
    /\ batchPc' = "done"
    /\ UNCHANGED <<urls, max_length_per_url, idx, results, pc, attempted, doc, trace>>
    /\ UNCHANGED <<textVars, registryVars, yearVars, toolsVars, metaVars, workerVars>>

NextExtract ==
    \/ StartExtract
    \/ TryNewspaper
    \/ TryReadability
    \/ TryBeautifulSoup
    \/ StoreResult
    \/ PropagateException
    \/ Sleep
    \/ BatchReturn

SpecExtract == InitExtract /\ [][NextExtract]_vars

(***************************************************************************)
(* CitationManager: the registry self.sources is a Python dict, modelled   *)
(* as the sequence of its entries in insertion order.                      *)
(***************************************************************************)
Ids(srcs) == {srcs[i].id : i \in 1..Len(srcs)}

\* faulty variant: the entry registered last is replaced
DictPutOverwrite(srcs, entry) ==
    IF Len(srcs) = 0 THEN <<entry>> ELSE [srcs EXCEPT ![Len(srcs)] = entry]

\* self.sources[source_id] = metadata: a present key keeps its place
DictPut(srcs, entry) ==
    IF entry.id \in Ids(srcs)
    THEN [i \in 1..Len(srcs) |-> IF srcs[i].id = entry.id THEN entry ELSE srcs[i]]
    ELSE Append(srcs, entry)

\* s.replace(pat, ""): every occurrence of pat, left to right
RECURSIVE RemoveAll(_, _)
RemoveAll(s, pat) ==
    IF Len(s) < Len(pat) THEN s
    ELSE IF SubSeq(s, 1, Len(pat)) = pat
         THEN RemoveAll(SubSeq(s, Len(pat) + 1, Len(s)), pat)
         ELSE <<Head(s)>> \o RemoveAll(Tail(s), pat)

\* c.lower()
Lower(c) ==
    IF IsUpper(c)
    THEN LowerLetters[CHOOSE i \in 1..Len(UpperLetters) : UpperLetters[i] = c]
    ELSE c

LowerStr(s) == [i \in 1..Len(s) |-> Lower(s[i])]

\* the characters \w and \s match
WordChars == Letters \cup Digits \cup {"_"}

\* re.sub(r'[^\w\s]', '', s)
StripPunctuation(s) == SelectSeq(s, LAMBDA c : c \in WordChars \cup Whitespace)

\* s.split(): the words between runs of whitespace
RECURSIVE WordsFrom(_, _, _, _)
WordsFrom(s, i, cur, acc) ==
    IF i > Len(s) THEN (IF Len(cur) > 0 THEN Append(acc, cur) ELSE acc)
    ELSE IF s[i] \in Whitespace
         THEN WordsFrom(s, i + 1, <<>>, IF Len(cur) > 0 THEN Append(acc, cur) ELSE acc)
         ELSE WordsFrom(s, i + 1, Append(cur, s[i]), acc)

SplitWords(s) == WordsFrom(s, 1, <<>>, <<>>)

\* str(n) for n >= 0
DigitChar(d) == <<"0", "1", "2", "3", "4", "5", "6", "7", "8", "9">>[d + 1]

RECURSIVE Str(_)
Str(n) == IF n < 10 THEN <<DigitChar(n)>> ELSE Str(n \div 10) \o <<DigitChar(n % 10)>>

\* _generate_source_id, lines 171-173: the candidate id
BaseId(url, title) ==
    LET domain == RemoveAll(Netloc(url).netloc, <<"w", "w", "w", ".">>)
        title_words == Prefix(SplitWords(StripPunctuation(LowerStr(title))), 3)
    IN domain \o <<"_">> \o Join(title_words, <<"_">>)

\* _generate_source_id, lines 175-179: the while loop
RECURSIVE FreeId(_, _, _, _)
FreeId(source_id, original_id, counter, srcs) ==
    IF source_id \in Ids(srcs)
    THEN FreeId(original_id \o <<"_">> \o Str(counter), original_id, counter + 1, srcs)
    ELSE source_id

\* faulty variant: the while loop of lines 177-179 is missing
GenerateSourceIdNoLoop(url, title, srcs) == BaseId(url, title)

\* faulty variant: counter starts at 0
GenerateSourceIdFromZero(url, title, srcs) ==
    FreeId(BaseId(url, title), BaseId(url, title), 0, srcs)

GenerateSourceId(url, title, srcs) ==
    FreeId(BaseId(url, title), BaseId(url, title), 1, srcs)

(***************************************************************************)
(* SpecRegistry: at most MaxSources calls of add_source on one manager.    *)
(***************************************************************************)
TitleA == <<"a">>
TitleA1 == <<"a", " ", "1">>
TitleLong == <<"A", "!", " ", "b", " ", "c", " ", "d">>
Titles == {TitleA, TitleA1, TitleLong}
RegistryUrls == {UrlPlain, UrlWww, UrlMalformed}
AuthorUnknown == <<"Unknown">>
AuthorJane == <<"Jane Doe">>
\* the (author, publish_date) pairs a caller passes
Bylines == {<<AuthorUnknown, NoDate>>, <<AuthorJane, <<"2", "0", "2", "3">>>>}
Today == <<"2026-11-04">>      \* datetime.now().strftime("%Y-%m-%d")

InitRegistry ==
    /\ sources = <<>>
    /\ citations = <<>>
    /\ log = <<>>
    /\ ret = NoReturn
    /\ TextIdle
    /\ ExtractIdle
    /\ YearIdle
    /\ ToolsIdle /\ MetaIdle /\ WorkersIdle

\* add_source returns: one entry is stored under a fresh id
AddSource ==
    /\ Len(log) < MaxSources
    /\ \E url \in RegistryUrls, title \in Titles, byline \in Bylines :
          /\ ~Netloc(url).raises
          /\ LET source_id == GenerateSourceId(url, title, sources)
                 metadata == [id |-> source_id, url |-> url, title |-> title,
                              author |-> byline[1], publish_date |-> byline[2],
                              domain |-> Netloc(url).netloc, access_date |-> Today,
                              content_type |-> "webpage"]
             IN /\ sources' = DictPut(sources, metadata)
                /\ log' = Append(log, [url |-> url, title |-> title, raised |-> FALSE,
                                       base |-> BaseId(url, title), id |-> source_id])
                /\ ret' = [op |-> "add_source", raised |-> FALSE, value |-> source_id]
    /\ UNCHANGED citations
    /\ UNCHANGED <<textVars, extractVars, yearVars, toolsVars, metaVars, workerVars>>

\* add_source raises at line 45: urlparse rejects the URL, nothing is stored
AddSourceRaises ==
    /\ Len(log) < MaxSources
    /\ \E url \in RegistryUrls, title \in Titles :
          /\ Netloc(url).raises
          /\ log' = Append(log, [url |-> url, title |-> title, raised |-> TRUE,
                                 base |-> <<>>, id |-> <<>>])
          /\ ret' = [op |-> "add_source", raised |-> TRUE, value |-> <<>>]
    /\ UNCHANGED <<sources, citations>>
    /\ UNCHANGED <<textVars, extractVars, yearVars, toolsVars, metaVars, workerVars>>


(***************************************************************************)
(* CitationManager._extract_year: re.search(r'\b(19|20)\d{2}\b', s).       *)
(***************************************************************************)
NoYear == <<"None">>          \* Python's None returned by _extract_year

\* \b before s[i] (i = Len(s) + 1: at the end): a word character on exactly
\* one side
WordBoundary(s, i) ==
    (i > 1 /\ s[i - 1] \in WordChars) # (i <= Len(s) /\ s[i] \in WordChars)

\* (19|20)\d{2} at s[i..i+3]
YearDigitsAt(s, i) ==
    /\ i + 3 <= Len(s)
    /\ <<s[i], s[i + 1]>> \in {<<"1", "9">>, <<"2", "0">>}
    /\ s[i + 2] \in Digits /\ s[i + 3] \in Digits

\* re.search: the leftmost position where the pattern matches
RECURSIVE SearchYear(_, _)
SearchYear(s, i) ==
    IF i > Len(s) THEN NoYear
    ELSE IF WordBoundary(s, i) /\ YearDigitsAt(s, i) /\ WordBoundary(s, i + 4)
         THEN SubSeq(s, i, i + 3)
         ELSE SearchYear(s, i + 1)

\* faulty variant: the pattern without its two \b
RECURSIVE SearchYearNoBoundary(_, _)
SearchYearNoBoundary(s, i) ==
    IF i > Len(s) THEN NoYear
    ELSE IF YearDigitsAt(s, i) THEN SubSeq(s, i, i + 3)
         ELSE SearchYearNoBoundary(s, i + 1)

ExtractYearNoBoundary(d) ==
    IF d = NoDate \/ Len(d) = 0 THEN NoYear ELSE SearchYearNoBoundary(d, 1)

ExtractYear(d) ==
    IF d = NoDate \/ Len(d) = 0 THEN NoYear ELSE SearchYear(d, 1)

(***************************************************************************)
(* SpecYear: _extract_year on None and on every string of at most          *)
(* MaxDateLen characters.                                                  *)
(***************************************************************************)
DateAlphabet == {"1", "9", "2", "0", "a", "-"}

InitYear ==
    /\ date_string \in Strings(DateAlphabet, MaxDateLen) \cup {NoDate}
    /\ year = NotCalled
    /\ TextIdle /\ ExtractIdle /\ RegistryIdle /\ ToolsIdle /\ MetaIdle /\ WorkersIdle

ApplyExtractYear ==
    /\ year = NotCalled
    /\ year' = ExtractYear(date_string)
    /\ UNCHANGED date_string
    /\ UNCHANGED <<textVars, extractVars, registryVars, toolsVars, metaVars, workerVars>>

NextYear == ApplyExtractYear

SpecYear == InitYear /\ [][NextYear]_vars

(***************************************************************************)
(* CitationManager._clean_title: the chain of re.sub calls of lines        *)
(* 197-206 and the short-title search of lines 208-211.                    *)
(***************************************************************************)
\* x = e followed by a use F(x) of x: e is evaluated once, as an assignment does
Bind(e, F(_)) == CHOOSE r \in {F(x) : x \in {e}} : TRUE

\* the first index >= i of s whose character is not in set (Len(s) + 1: none)
RECURSIVE RunEnd(_, _, _)
RunEnd(s, i, set) ==
    IF i <= Len(s) /\ s[i] \in set THEN RunEnd(s, i + 1, set) ELSE i

LowerSet == {LowerLetters[i] : i \in 1..Len(LowerLetters)}     \* [a-z]
UpperSet == {UpperLetters[i] : i \in 1..Len(UpperLetters)}     \* [A-Z]
SelectorChars == WordChars \cup {"-"}                           \* [-\w]
VariableChars == Letters \cup {"-"}                             \* [a-zA-Z-]

\* r'\.\w+[-\w]*\s*'
SelectorEnd(s, i) ==
    IF s[i] = "." /\ i + 1 <= Len(s) /\ s[i + 1] \in WordChars
    THEN RunEnd(s, RunEnd(s, i + 1, SelectorChars), Whitespace)
    ELSE 0

\* [A-Z][a-z]+ at i: the index after it, or 0
CapitalWordEnd(s, i) ==
    IF i + 1 <= Len(s) /\ s[i] \in UpperSet /\ s[i + 1] \in LowerSet
    THEN RunEnd(s, i + 1, LowerSet)
    ELSE 0

\* (?:\s+[A-Z][a-z]+)* from e, greedy, giving a word boundary back at its
\* end: the index after the last repetition that can be kept, or 0
RECURSIVE MoreWordsEnd(_, _)
MoreWordsEnd(s, e) ==
    Bind(RunEnd(s, e, Whitespace), LAMBDA w :
      Bind(IF w > e /\ w <= Len(s) THEN CapitalWordEnd(s, w) ELSE 0, LAMBDA e2 :
        Bind(IF e2 # 0 THEN MoreWordsEnd(s, e2) ELSE 0, LAMBDA rest :
          IF rest # 0 THEN rest
          ELSE IF WordBoundary(s, e) THEN e ELSE 0)))

\* r'\b[A-Z][a-z]+-[A-Z][a-z]+(?:\s+[A-Z][a-z]+)*\b'
HyphenatedEnd(s, i) ==
    Bind(IF WordBoundary(s, i) THEN CapitalWordEnd(s, i) ELSE 0, LAMBDA e1 :
      Bind(IF e1 # 0 /\ e1 <= Len(s) /\ s[e1] = "-"
           THEN CapitalWordEnd(s, e1 + 1) ELSE 0, LAMBDA e2 :
        IF e2 # 0 THEN MoreWordsEnd(s, e2) ELSE 0))

\* r'--[a-zA-Z-]+'
CssVariableEnd(s, i) ==
    IF i + 2 <= Len(s) /\ s[i] = "-" /\ s[i + 1] = "-" /\ s[i + 2] \in VariableChars
    THEN RunEnd(s, i + 2, VariableChars)
    ELSE 0

StyleKeywords ==
    {<<"A", "l", "i", "g", "n">>,
     <<"D", "i", "s", "p", "l", "a", "y">>,
     <<"F", "l", "e", "x">>,
     <<"G", "a", "p">>,
     <<"V", "a", "r">>,
     <<"F", "o", "n", "t">>,
     <<"S", "i", "z", "e">>,
     <<"W", "e", "i", "g", "h", "t">>,
     <<"L", "i", "n", "e">>,
     <<"H", "e", "i", "g", "h", "t">>,
     <<"M", "e", "d", "i", "a">>,
     <<"M", "i", "n">>,
     <<"W", "i", "d", "t", "h">>,
     <<"S", "h", "o", "w">>,
     <<"S", "e", "p", "e", "r", "a", "t", "o", "r">>,
     <<"B", "l", "o", "c", "k">>}

\* r'\b(Align|Display|...|Block)\b'
KeywordEnd(s, i) ==
    IF s[i] \in UpperSet /\ WordBoundary(s, i)
    THEN Bind(SubSeq(s, i, RunEnd(s, i, Letters) - 1), LAMBDA word :
           IF word \in StyleKeywords /\ WordBoundary(s, i + Len(word))
           THEN i + Len(word) ELSE 0)
    ELSE 0

\* the index after the match of the numbered pattern of lines 197-203 that
\* starts at i, or 0 when there is none
MatchEnd(rule, s, i) ==
    CASE rule = 1 -> SelectorEnd(s, i)
      [] rule = 2 -> HyphenatedEnd(s, i)
      [] rule = 3 -> CssVariableEnd(s, i)
      [] rule = 4 -> KeywordEnd(s, i)

\* re.sub(pattern, '', s) from i; none of the patterns matches an empty string
RECURSIVE SubFrom(_, _, _)
SubFrom(s, i, rule) ==
    IF i > Len(s) THEN <<>>
    ELSE Bind(MatchEnd(rule, s, i), LAMBDA e :
           IF e # 0 THEN SubFrom(s, e, rule)
           ELSE <<s[i]>> \o SubFrom(s, i + 1, rule))

\* re.sub(r'\s+', ' ', s)
RECURSIVE CollapseWhitespace(_, _)
CollapseWhitespace(s, i) ==
    IF i > Len(s) THEN <<>>
    ELSE IF s[i] \in Whitespace
         THEN <<" ">> \o CollapseWhitespace(s, RunEnd(s, i, Whitespace))
         ELSE <<s[i]>> \o CollapseWhitespace(s, i + 1)

\* re.search(r'([A-Z][^.]*[.!?])', s) from i: the match, or s when there is none
RECURSIVE FirstSentence(_, _)
FirstSentence(s, i) ==
    IF i > Len(s) THEN s
    ELSE IF s[i] \notin UpperSet THEN FirstSentence(s, i + 1)
    ELSE LET dot == RunEnd(s, i + 1, {s[k] : k \in 1..Len(s)} \ {"."})
             marks == {k \in (i + 1)..Len(s) : s[k] \in {"!", "?"}}
         IN IF dot <= Len(s) THEN SubSeq(s, i, dot)
            ELSE IF marks # {}
                 THEN SubSeq(s, i, CHOOSE k \in marks : \A j \in marks : j <= k)
                 ELSE FirstSentence(s, i + 1)

ShortTitle == 10              \* a cleaned title shorter than this is searched

\* lines 197-206
StripStyling(title) ==
    Bind(SubFrom(title, 1, 1), LAMBDA t1 :
      Bind(SubFrom(t1, 1, 2), LAMBDA t2 :
        Bind(SubFrom(t2, 1, 3), LAMBDA t3 :
          Bind(SubFrom(t3, 1, 4), LAMBDA t4 :
            Bind(CollapseWhitespace(t4, 1), LAMBDA t5 : Strip(t5))))))

\* faulty variant: the title is used as given
CleanTitleIdentity(title) == title

CleanTitle(title) ==
    IF Len(title) = 0 THEN title
    ELSE Bind(StripStyling(title), LAMBDA t :
           IF Len(t) < ShortTitle THEN FirstSentence(t, 1) ELSE t)

(***************************************************************************)
(* CitationManager: the five citation formatters and format_citation.      *)
(* A formatted citation is a sequence of characters in which a fixed word  *)
(* of a template, an author and a date stamp are each one element.         *)
(***************************************************************************)
Styles == {"apa", "mla", "chicago", "harvard", "ieee"}     \* CitationStyle

\* CitationStyle.value
StyleValue(style) ==
    CASE style = "apa" -> <<"a", "p", "a">>
      [] style = "mla" -> <<"m", "l", "a">>
      [] style = "chicago" -> <<"c", "h", "i", "c", "a", "g", "o">>
      [] style = "harvard" -> <<"h", "a", "r", "v", "a", "r", "d">>
      [] style = "ieee" -> <<"i", "e", "e", "e">>

\* c.upper()
Upper(c) ==
    IF IsLower(c)
    THEN UpperLetters[CHOOSE i \in 1..Len(LowerLetters) : LowerLetters[i] = c]
    ELSE c

UpperStr(s) == [i \in 1..Len(s) |-> Upper(s[i])]

\* self.sources[source_id]
Lookup(srcs, source_id) == srcs[CHOOSE i \in 1..Len(srcs) : srcs[i].id = source_id]

\* faulty variant: the retrieval clause is left out
FormatApaCitationNoRetrieval(source) ==
    LET clean_title == CleanTitle(source.title)
        yr == ExtractYear(source.publish_date)
        known == source.author # <<"Unknown">>
        citation_parts ==
            <<IF known THEN source.author ELSE clean_title>> \o
            <<IF yr # NoYear THEN <<"(">> \o yr \o <<")">>
              ELSE <<"(", "n", ".", "d", ".", ")">>>> \o
            <<IF known THEN clean_title \o <<".">>
              ELSE <<"Retrieved", " ", "from", " ">> \o source.url>>
    IN Join(citation_parts, <<" ">>)

FormatApaCitation(source) ==
    LET clean_title == CleanTitle(source.title)
        yr == ExtractYear(source.publish_date)
        known == source.author # <<"Unknown">>
        citation_parts ==
            <<IF known THEN source.author ELSE clean_title>> \o
            <<IF yr # NoYear THEN <<"(">> \o yr \o <<")">>
              ELSE <<"(", "n", ".", "d", ".", ")">>>> \o
            <<IF known THEN clean_title \o <<".">>
              ELSE <<"Retrieved", " ", "from", " ">> \o source.url>> \o
            (IF known
             THEN <<<<"Retrieved", " ">> \o source.access_date \o
                    <<" ", "from", " ">> \o source.url>>
             ELSE <<>>)
    IN Join(citation_parts, <<" ">>)

\* faulty variant: a source without a yr is cited with "n.d.,"
FormatMlaCitationUndated(source) ==
    LET clean_title == CleanTitle(source.title)
        yr == ExtractYear(source.publish_date)
        citation_parts ==
            (IF source.author # <<"Unknown">> THEN <<source.author>> ELSE <<>>) \o
            <<<<"\"">> \o clean_title \o <<".", "\"">>>> \o
            <<source.domain \o <<",">>>> \o
            <<(IF yr # NoYear THEN yr ELSE <<"n", ".", "d", ".">>) \o <<",">>>> \o
            <<source.access_date \o <<",", " ">> \o source.url \o <<".">>>>
    IN Join(citation_parts, <<" ">>)

FormatMlaCitation(source) ==
    LET clean_title == CleanTitle(source.title)
        yr == ExtractYear(source.publish_date)
        citation_parts ==
            (IF source.author # <<"Unknown">> THEN <<source.author>> ELSE <<>>) \o
            <<<<"\"">> \o clean_title \o <<".", "\"">>>> \o
            <<source.domain \o <<",">>>> \o
            (IF yr # NoYear THEN <<yr \o <<",">>>> ELSE <<>>) \o
            <<source.access_date \o <<",", " ">> \o source.url \o <<".">>>>
    IN Join(citation_parts, <<" ">>)

FormatChicagoCitation(source) ==
    LET clean_title == CleanTitle(source.title)
        yr == ExtractYear(source.publish_date)
        citation_parts ==
            <<IF source.author # <<"Unknown">> THEN source.author ELSE source.domain>> \o
            <<<<"\"">> \o clean_title \o <<".", "\"">>>> \o
            <<source.domain \o <<".">>>> \o
            (IF yr # NoYear
             THEN <<<<"Last", " ", "modified", " ">> \o yr \o <<".">>>>
             ELSE <<>>) \o
            <<<<"Accessed", " ">> \o source.access_date \o <<".", " ">> \o
              source.url \o <<".">>>>
    IN Join(citation_parts, <<" ">>)

FormatHarvardCitation(source) ==
    LET clean_title == CleanTitle(source.title)
        yr == ExtractYear(source.publish_date)
        citation_parts ==
            <<IF source.author # <<"Unknown">> THEN source.author ELSE source.domain>> \o
            <<IF yr # NoYear THEN yr ELSE <<"n", ".", "d", ".">>>> \o
            <<clean_title \o <<".">>>> \o
            <<<<"Available", " ", "at", ":", " ">> \o source.url \o
              <<" ", "(", "Accessed", ":", " ">> \o source.access_date \o <<")">>>>
    IN Join(citation_parts, <<" ">>)

FormatIeeeCitation(source) ==
    LET clean_title == CleanTitle(source.title)
        yr == ExtractYear(source.publish_date)
        citation_parts ==
            <<IF source.author # <<"Unknown">> THEN source.author ELSE source.domain>> \o
            <<<<"\"">> \o clean_title \o <<",", "\"">>>> \o
            <<source.domain \o <<".">>>> \o
            (IF yr # NoYear THEN <<yr \o <<".">>>> ELSE <<>>) \o
            <<<<"[", "Online", "]", ".", " ", "Available", ":", " ">> \o source.url>>
    IN Join(citation_parts, <<" ">>)

\* faulty variant: the id alone is returned for an unknown source
SourceNotFoundBare(source_id) == source_id

\* f"[Source not found: {source_id}]"
SourceNotFound(source_id) ==
    <<"[", "Source", " ", "not", " ", "found", ":", " ">> \o source_id \o <<"]">>

FormatCitation(srcs, source_id, style) ==
    IF source_id \notin Ids(srcs) THEN SourceNotFound(source_id)
    ELSE LET source == Lookup(srcs, source_id)
         IN CASE style = "apa" -> FormatApaCitation(source)
              [] style = "mla" -> FormatMlaCitation(source)
              [] style = "chicago" -> FormatChicagoCitation(source)
              [] style = "harvard" -> FormatHarvardCitation(source)
              [] style = "ieee" -> FormatIeeeCitation(source)
              [] OTHER -> FormatApaCitation(source)

\* f"{year}" for the result of _extract_year: None is rendered as its name
YearText(yr) == IF yr = NoYear THEN <<"N", "o", "n", "e">> ELSE yr

\* faulty variant: the author is used even when it is "Unknown"
InTextNameAuthorOnly(source) == source.author

\* the author, or the title as given when the author is "Unknown"
InTextName(source) ==
    IF source.author # <<"Unknown">> THEN source.author ELSE source.title

FormatInTextCitation(srcs, source_id, style) ==
    IF source_id \notin Ids(srcs) THEN SourceNotFound(source_id)
    ELSE LET source == Lookup(srcs, source_id)
             yr == YearText(ExtractYear(source.publish_date))
         IN CASE style = "apa" ->
                   <<"(">> \o InTextName(source) \o <<",", " ">> \o yr \o <<")">>
              [] style = "mla" -> <<"(">> \o InTextName(source) \o <<")">>
              [] style = "harvard" ->
                   <<"(">> \o InTextName(source) \o <<" ">> \o yr \o <<")">>
              [] OTHER -> <<"(">> \o source_id \o <<")">>

(***************************************************************************)
(* CitationManager: generate_reference_list, generate_bibliography and     *)
(* get_source_statistics.                                                  *)
(***************************************************************************)
\* faulty variant: the references come out last registered first
GenerateReferenceListReversed(srcs, style) ==
    [i \in 1..Len(srcs) |-> FormatCitation(srcs, srcs[Len(srcs) + 1 - i].id, style)]

GenerateReferenceList(srcs, style) ==
    [i \in 1..Len(srcs) |-> FormatCitation(srcs, srcs[i].id, style)]

\* lines 138-139: bibliography += f"{i}. {ref}\n" for the references from i on
RECURSIVE AppendReferences(_, _, _)
AppendReferences(bibliography, references, i) ==
    IF i > Len(references) THEN bibliography
    ELSE AppendReferences(bibliography \o Str(i) \o <<".", " ">> \o references[i] \o <<"\n">>,
                          references, i + 1)

GenerateBibliography(srcs, style) ==
    LET references == GenerateReferenceList(srcs, style)
    IN IF Len(references) = 0 THEN <<"No", " ", "sources", " ", "cited", ".">>
       ELSE AppendReferences(<<"References", " ", "(">> \o UpperStr(StyleValue(style)) \o
                                 <<" ", "Style", ")", ":", "\n", "\n">>,
                             references, 1)

\* faulty variant: a key that is already counted is not counted again
CountKeyOnce(d, key) ==
    IF \E i \in 1..Len(d) : d[i].key = key THEN d
    ELSE Append(d, [key |-> key, count |-> 1])

\* d[key] = d.get(key, 0) + 1 on a dict kept as its items in insertion order
CountKey(d, key) ==
    IF \E i \in 1..Len(d) : d[i].key = key
    THEN [i \in 1..Len(d) |->
             IF d[i].key = key THEN [key |-> key, count |-> d[i].count + 1] ELSE d[i]]
    ELSE Append(d, [key |-> key, count |-> 1])

\* the loop of lines 151-158 for one of its dicts, over the values from i on
RECURSIVE CountValues(_, _, _)
CountValues(d, values, i) ==
    IF i > Len(values) THEN d
    ELSE CountValues(CountKey(d, values[i]), values, i + 1)

NoMostCommon == <<"None">>     \* Python's None as most_common_domain / _author

\* faulty variant: the last of the items with the greatest count
MostCommonLast(d) ==
    IF Len(d) = 0 THEN NoMostCommon
    ELSE d[CHOOSE i \in 1..Len(d) :
              \A j \in 1..Len(d) :
                 /\ d[j].count <= d[i].count
                 /\ j > i => d[j].count < d[i].count].key

\* max(d.items(), key=lambda x: x[1])[0] if d else None: max keeps the first
\* of the items with the greatest count
MostCommon(d) ==
    IF Len(d) = 0 THEN NoMostCommon
    ELSE d[CHOOSE i \in 1..Len(d) :
              \A j \in 1..Len(d) :
                 /\ d[j].count <= d[i].count
                 /\ j < i => d[j].count < d[i].count].key

GetSourceStatistics(srcs, cits) ==
    LET domains == CountValues(<<>>, [i \in 1..Len(srcs) |-> srcs[i].domain], 1)
        authors == CountValues(<<>>, [i \in 1..Len(srcs) |-> srcs[i].author], 1)
        years == CountValues(<<>>,
                             SelectSeq([i \in 1..Len(srcs) |->
                                           ExtractYear(srcs[i].publish_date)],
                                       LAMBDA y : y # NoYear),
                             1)
    IN [total_sources |-> Len(srcs),
        total_citations |-> Len(cits),
        domains |-> domains,
        authors |-> authors,
        years |-> years,
        most_common_domain |-> MostCommon(domains),
        most_common_author |-> MostCommon(authors)]

(***************************************************************************)
(* SpecCitations: one CitationManager under every sequence of calls of its *)
(* public operations.                                                      *)
(***************************************************************************)
TitleStyled == <<"F", "l", "e", "x", " ", ".", "b", " ", "T", "o", "p", " ",
                 "N", "e", "w", "s", " ", "T", "o", "d", "a", "y">>
DateStamp == <<"2", "0", "2", "3", "-", "0", "5">>

\* the arguments of the add_source calls
CitedInputs ==
    {[url |-> UrlPlain, title |-> TitleStyled, author |-> AuthorJane,
      publish_date |-> DateStamp],
     [url |-> UrlUserPort, title |-> TitleLong, author |-> AuthorUnknown,
      publish_date |-> NoDate],
     [url |-> UrlUserPort, title |-> TitleA, author |-> AuthorJane,
      publish_date |-> NoDate],
     [url |-> UrlMalformed, title |-> TitleA, author |-> AuthorUnknown,
      publish_date |-> NoDate]}

MissingId == <<"x">>          \* an id no add_source call derives

\* the source_id arguments of the calls that take one
QueriedIds(srcs) == Ids(srcs) \cup {MissingId}

InitCitations ==
    /\ sources = <<>>
    /\ citations = <<>>
    /\ log = <<>>
    /\ ret = NoReturn
    /\ TextIdle /\ ExtractIdle /\ YearIdle /\ ToolsIdle /\ MetaIdle /\ WorkersIdle

\* add_source returns
CitAddSource ==
    /\ Len(sources) + Len(citations) < MaxCited
    /\ \E a \in CitedInputs :
          /\ ~Netloc(a.url).raises
          /\ LET source_id == GenerateSourceId(a.url, a.title, sources)
                 metadata == [id |-> source_id, url |-> a.url, title |-> a.title,
                              author |-> a.author, publish_date |-> a.publish_date,
                              domain |-> Netloc(a.url).netloc, access_date |-> Today,
                              content_type |-> "webpage"]
             IN /\ sources' = DictPut(sources, metadata)
                /\ ret' = [op |-> "add_source", raised |-> FALSE, value |-> source_id]
    /\ UNCHANGED <<citations, log>>
    /\ UNCHANGED <<textVars, extractVars, yearVars, toolsVars, metaVars, workerVars>>

\* add_source raises at line 45
CitAddSourceRaises ==
    /\ \E a \in CitedInputs :
          /\ Netloc(a.url).raises
          /\ ret' = [op |-> "add_source", raised |-> TRUE, value |-> <<>>]
    /\ UNCHANGED <<sources, citations, log>>
    /\ UNCHANGED <<textVars, extractVars, yearVars, toolsVars, metaVars, workerVars>>

\* faulty variant: the citation holds a source that is not the stored one
NewCitationDetached(srcs, source_id) ==
    [source |-> [Lookup(srcs, source_id) EXCEPT !.id = <<>>], quote |-> None,
     page_number |-> None, section |-> None]

\* Citation(source=self.sources[source_id], ...), lines 67-73
NewCitation(srcs, source_id) ==
    [source |-> Lookup(srcs, source_id), quote |-> None,
     page_number |-> None, section |-> None]

\* add_citation returns: the citation of a registered source is appended
AddCitation ==
    /\ Len(sources) + Len(citations) < MaxCited
    /\ \E source_id \in Ids(sources) :
          LET citation == NewCitation(sources, source_id)
          IN /\ citations' = Append(citations, citation)
             /\ ret' = [op |-> "add_citation", source_id |-> source_id,
                        raised |-> FALSE, value |-> citation]
    /\ UNCHANGED <<sources, log>>
    /\ UNCHANGED <<textVars, extractVars, yearVars, toolsVars, metaVars, workerVars>>

\* add_citation raises ValueError at line 65
AddCitationRaises ==
    /\ \E source_id \in QueriedIds(sources) \ Ids(sources) :
          ret' = [op |-> "add_citation", source_id |-> source_id,
                  raised |-> TRUE, value |-> <<>>]
    /\ UNCHANGED <<sources, citations, log>>
    /\ UNCHANGED <<textVars, extractVars, yearVars, toolsVars, metaVars, workerVars>>

CallFormatCitation ==
    /\ \E source_id \in QueriedIds(sources), style \in Styles :
          ret' = [op |-> "format_citation", source_id |-> source_id, style |-> style,
                  raised |-> FALSE, value |-> FormatCitation(sources, source_id, style)]
    /\ UNCHANGED <<sources, citations, log>>
    /\ UNCHANGED <<textVars, extractVars, yearVars, toolsVars, metaVars, workerVars>>

CallFormatInTextCitation ==
    /\ \E source_id \in QueriedIds(sources), style \in Styles :
          ret' = [op |-> "format_in_text_citation", source_id |-> source_id,
                  style |-> style, raised |-> FALSE,
                  value |-> FormatInTextCitation(sources, source_id, style)]
    /\ UNCHANGED <<sources, citations, log>>
    /\ UNCHANGED <<textVars, extractVars, yearVars, toolsVars, metaVars, workerVars>>

CallGenerateReferenceList ==
    /\ \E style \in Styles :
          ret' = [op |-> "generate_reference_list", style |-> style, raised |-> FALSE,
                  value |-> GenerateReferenceList(sources, style)]
    /\ UNCHANGED <<sources, citations, log>>
    /\ UNCHANGED <<textVars, extractVars, yearVars, toolsVars, metaVars, workerVars>>

CallGenerateBibliography ==
    /\ \E style \in Styles :
          ret' = [op |-> "generate_bibliography", style |-> style, raised |-> FALSE,
                  value |-> GenerateBibliography(sources, style)]
    /\ UNCHANGED <<sources, citations, log>>
    /\ UNCHANGED <<textVars, extractVars, yearVars, toolsVars, metaVars, workerVars>>

CallGetSourceStatistics ==
    /\ ret' = [op |-> "get_source_statistics", raised |-> FALSE,
               value |-> GetSourceStatistics(sources, citations)]
    /\ UNCHANGED <<sources, citations, log>>
    /\ UNCHANGED <<textVars, extractVars, yearVars, toolsVars, metaVars, workerVars>>

NextCitations ==
    \/ CitAddSource
    \/ CitAddSourceRaises
    \/ AddCitation
    \/ AddCitationRaises
    \/ CallFormatCitation
    \/ CallFormatInTextCitation
    \/ CallGenerateReferenceList
    \/ CallGenerateBibliography
    \/ CallGetSourceStatistics

SpecCitations == InitCitations /\ [][NextCitations]_vars

\* SpecRegistry: add_source calls, and get_source_statistics between them
NextRegistry == AddSource \/ AddSourceRaises \/ CallGetSourceStatistics

SpecRegistry == InitRegistry /\ [][NextRegistry]_vars

(***************************************************************************)
(* src/tools.py: scrape_url_content_smart and                              *)
(* scrape_multiple_urls_adaptive.                                          *)
(***************************************************************************)
Cap1 == 4000                  \* per-URL cap for one URL
Cap2 == 3000                  \* per-URL cap for two URLs
Cap3 == 2500                  \* per-URL cap for three URLs
CapMany == 2000               \* per-URL cap for any other number of URLs
DefaultTotalTarget == 8000    \* default total_target_length

\* the text of a fetched page after the whitespace clean-up, or a failed fetch
FetchFailed == <<"fetch failed">>
ToolPageText == <<"a", "b", ".", "c", "d", "e">>
ToolPages == {FetchFailed, ToolPageText}

\* lines 80-93 of scrape_url_content_smart; the float test against
\* target_length * 0.8 is the integer test 5 * x > 4 * target_length
SmartTruncate(text, target_length) ==
    IF Len(text) > target_length
    THEN LET truncated == Prefix(text, target_length)
             last_sentence_end == Max(RFind(truncated, "."),
                                      Max(RFind(truncated, "!"), RFind(truncated, "?")))
         IN IF 5 * last_sentence_end > 4 * target_length
            THEN Prefix(text, last_sentence_end + 1)
            ELSE Prefix(text, target_length) \o <<".", ".", ".">>
    ELSE text

\* scrape_url_content_smart: never raises
ScrapeUrlContentSmart(url, target_length, page) ==
    IF page = FetchFailed THEN <<"Could not scrape content from ">> \o url
    ELSE SmartTruncate(page, target_length)

\* faulty variant: the two-URL branch does not divide the total
PerUrlLengthNoDivide(num_urls, total) ==
    IF num_urls = 1 THEN Min(total, Cap1)
    ELSE IF num_urls = 2 THEN Min(total, Cap2)
    ELSE IF num_urls = 3 THEN Min(total \div 3, Cap3)
    ELSE Min(total \div num_urls, CapMany)

\* lines 117-124 of scrape_multiple_urls_adaptive, for num_urls # 0
PerUrlLength(num_urls, total) ==
    IF num_urls = 1 THEN Min(total, Cap1)
    ELSE IF num_urls = 2 THEN Min(total \div 2, Cap2)
    ELSE IF num_urls = 3 THEN Min(total \div 3, Cap3)
    ELSE Min(total \div num_urls, CapMany)

(***************************************************************************)
(* SpecTools: one call of scrape_multiple_urls_adaptive.                   *)
(***************************************************************************)
ToolUrls == {UrlPlain, UrlWww}
ToolUrlLists == UNION {[1..k -> ToolUrls] : k \in 0..MaxToolUrls}

\* every small total, and the totals around those at which a cap takes over
TotalTargets ==
    (0..MaxTotal) \cup {DefaultTotalTarget} \cup
    {t + d : t \in {Cap1, 2 * Cap2, 3 * Cap3} \cup
                   {k * CapMany : k \in 4..(MaxToolUrls + 1)},
             d \in {0 - 1, 0, 1}}

InitTools ==
    /\ tool_urls \in ToolUrlLists
    /\ total_target_length \in TotalTargets
    /\ budgets = <<>>
    /\ scraped_content = <<>>
    /\ toolsPc = "called"
    /\ TextIdle /\ ExtractIdle /\ RegistryIdle /\ YearIdle /\ MetaIdle /\ WorkersIdle

\* the call returns: every URL is scraped with per_url_length, a later
\* occurrence of a URL replacing the entry of an earlier one
ScrapeAdaptive ==
    /\ toolsPc = "called"
    /\ Len(tool_urls) # 0
    /\ LET num_urls == Len(tool_urls)
           per_url_length == PerUrlLength(num_urls, total_target_length)
       IN \E pages \in [1..num_urls -> ToolPages] :
             /\ budgets' = [i \in 1..num_urls |-> per_url_length]
             /\ scraped_content' =
                   [u \in {tool_urls[i] : i \in 1..num_urls} |->
                       LET last == CHOOSE i \in 1..num_urls :
                                      /\ tool_urls[i] = u
                                      /\ \A j \in 1..num_urls : tool_urls[j] = u => j <= i
                       IN ScrapeUrlContentSmart(u, per_url_length, pages[last])]
    /\ toolsPc' = "returned"
    /\ UNCHANGED <<tool_urls, total_target_length>>
    /\ UNCHANGED <<textVars, extractVars, registryVars, yearVars, metaVars, workerVars>>

\* the call raises: with no URL the else branch divides by num_urls = 0
ScrapeAdaptiveRaises ==
    /\ toolsPc = "called"
    /\ Len(tool_urls) = 0
    /\ toolsPc' = "raised"
    /\ UNCHANGED <<tool_urls, total_target_length, budgets, scraped_content>>
    /\ UNCHANGED <<textVars, extractVars, registryVars, yearVars, metaVars, workerVars>>

NextTools == ScrapeAdaptive \/ ScrapeAdaptiveRaises

SpecTools == InitTools /\ [][NextTools]_vars

(***************************************************************************)
(* SpecCandidate: the first add_source call on a fresh manager, for every  *)
(* title of at most MaxTitleLen characters; the id it returns is the       *)
(* candidate id of _generate_source_id.                                    *)
(***************************************************************************)
CandidateUrls == {UrlPlain, UrlWww, UrlInnerWww, UrlUserPort}
TitleAlphabet == {"a", "B", "-", " "}

FirstAddSource ==
    /\ sources = <<>> /\ log = <<>>
    /\ \E url \in CandidateUrls, title \in Strings(TitleAlphabet, MaxTitleLen) :
          LET source_id == GenerateSourceId(url, title, sources)
              metadata == [id |-> source_id, url |-> url, title |-> title,
                           author |-> AuthorUnknown, publish_date |-> NoDate,
                           domain |-> Netloc(url).netloc, access_date |-> Today,
                           content_type |-> "webpage"]
          IN /\ sources' = DictPut(sources, metadata)
             /\ log' = Append(log, [url |-> url, title |-> title, raised |-> FALSE,
                                    base |-> BaseId(url, title), id |-> source_id])
             /\ ret' = [op |-> "add_source", raised |-> FALSE, value |-> source_id]
    /\ UNCHANGED citations
    /\ UNCHANGED <<textVars, extractVars, yearVars, toolsVars, metaVars, workerVars>>

SpecCandidate == InitRegistry /\ [][FirstAddSource]_vars

(***************************************************************************)
(* SpecMetadata: _extract_metadata_from_html, one selector per step.  The  *)
(* page is what select_one finds for each selector: no element, or an      *)
(* element with its tag name and the value the code reads from it (the     *)
(* content attribute of a meta, the datetime attribute of a time, the text *)
(* of any other element); at most MaxElements selectors match.             *)
(***************************************************************************)
AuthorSelectors ==
    <<"meta[name=\"author\"]", "meta[property=\"article:author\"]", ".author",
      ".byline", "[rel=\"author\"]">>
DateSelectors ==
    <<"meta[property=\"article:published_time\"]", "meta[name=\"date\"]",
      "meta[name=\"pubdate\"]", "time[datetime]", ".date", ".published">>

NoElement == [name |-> "no element"]
AttributeMissing == <<"attribute missing">>
DateParsable == <<"2023-05-01">>
DateIso == <<"2023-05-01T00:00:00">>
DateUnparsable == <<"s", "o", "o", "n">>

Element(name, value) == [name |-> name, value |-> value]

\* the elements a selector can find
MetaElements(values) == {Element("meta", v) : v \in {AttributeMissing, <<>>} \cup values}
ElementsFor(sel) ==
    IF sel \in {AuthorSelectors[1], AuthorSelectors[2]}
    THEN MetaElements({AuthorJane})
    ELSE IF sel \in {AuthorSelectors[3], AuthorSelectors[4], AuthorSelectors[5]}
    THEN {Element("span", <<" ">>), Element("span", <<" ">> \o AuthorJane),
          Element("meta", AttributeMissing)}
    ELSE IF sel \in {DateSelectors[1], DateSelectors[2], DateSelectors[3]}
    THEN MetaElements({DateParsable, DateUnparsable})
    ELSE IF sel = DateSelectors[4]
    THEN {Element("time", <<>>), Element("time", DateParsable)}
    ELSE {Element("span", <<" ">>), Element("span", DateParsable \o <<" ">>),
          Element("span", DateUnparsable), Element("time", AttributeMissing)}

AllSelectors ==
    {AuthorSelectors[i] : i \in DOMAIN AuthorSelectors} \cup
    {DateSelectors[i] : i \in DOMAIN DateSelectors}

\* the pages on which exactly the selectors of S find an element
RECURSIVE PagesMatching(_)
PagesMatching(S) ==
    IF S = {} THEN {[sel \in AllSelectors |-> NoElement]}
    ELSE LET first == CHOOSE sel \in S : TRUE
         IN {[page EXCEPT ![first] = elem] :
                page \in PagesMatching(S \ {first}), elem \in ElementsFor(first)}

Pages ==
    UNION {PagesMatching(S) : S \in {T \in SUBSET AllSelectors : Cardinality(T) <= MaxElements}}

\* lines 180-183: elem.get('content', 'Unknown') or elem.get_text().strip()
AuthorOf(elem) ==
    IF elem.name = "meta"
    THEN (IF elem.value = AttributeMissing THEN AuthorUnknown ELSE elem.value)
    ELSE Strip(elem.value)

\* lines 197-202: the date string read from the element
DateStrOf(elem) ==
    IF elem.name \in {"meta", "time"}
    THEN (IF elem.value = AttributeMissing THEN <<>> ELSE elem.value)
    ELSE Strip(elem.value)

\* lines 204-211: parser.parse(date_str).isoformat(), the raw string if
\* parse raises, the old value for an empty string
PublishDate(date_str, old) ==
    IF date_str = <<>> THEN old
    ELSE IF date_str = DateParsable THEN DateIso
    ELSE date_str

InitMetadata ==
    /\ html \in Pages
    /\ page_metadata = [author |-> AuthorUnknown, publish_date |-> NoDate,
                        domain |-> Netloc(UrlPlain).netloc]
    /\ metaPc = "author"
    /\ selector = 1
    /\ consulted = <<>>
    /\ TextIdle /\ ExtractIdle /\ RegistryIdle /\ YearIdle /\ ToolsIdle /\ WorkersIdle

\* one iteration of "for selector in author_selectors"
SelectAuthor ==
    /\ metaPc = "author"
    /\ LET elem == html[AuthorSelectors[selector]]
       IN /\ consulted' = Append(consulted, AuthorSelectors[selector])
          /\ IF elem # NoElement
             THEN /\ page_metadata' = [page_metadata EXCEPT !.author = AuthorOf(elem)]
                  /\ metaPc' = "date" /\ selector' = 1
             ELSE /\ page_metadata' = page_metadata
                  /\ IF selector = Len(AuthorSelectors)
                     THEN metaPc' = "date" /\ selector' = 1
                     ELSE metaPc' = metaPc /\ selector' = selector + 1
    /\ UNCHANGED html
    /\ UNCHANGED <<textVars, extractVars, registryVars, yearVars, toolsVars, workerVars>>

\* one iteration of "for selector in date_selectors"; return metadata after
\* the last
SelectDate ==
    /\ metaPc = "date"
    /\ LET elem == html[DateSelectors[selector]]
       IN /\ consulted' = Append(consulted, DateSelectors[selector])
          /\ IF elem # NoElement
             THEN /\ page_metadata' =
                        [page_metadata EXCEPT !.publish_date =
                            PublishDate(DateStrOf(elem), page_metadata.publish_date)]
                  /\ metaPc' = "done" /\ selector' = selector
             ELSE /\ page_metadata' = page_metadata
                  /\ IF selector = Len(DateSelectors)
                     THEN metaPc' = "done" /\ selector' = selector
                     ELSE metaPc' = metaPc /\ selector' = selector + 1
    /\ UNCHANGED html
    /\ UNCHANGED <<textVars, extractVars, registryVars, yearVars, toolsVars, workerVars>>

NextMetadata == SelectAuthor \/ SelectDate

SpecMetadata == InitMetadata /\ [][NextMetadata]_vars

(***************************************************************************)
(* SpecWorkers: two threads call add_source on one manager.  A call is two *)
(* steps, the id derivation of lines 45-46 and the store of lines 48-59;   *)
(* another thread may run between them unless the callers serialize the    *)
(* calls (locked), which the function itself does not do.                  *)
(***************************************************************************)
Workers == {"w1", "w2"}
WorkerCalls == {<<UrlPlain, TitleA>>, <<UrlWww, TitleA>>, <<UrlPlain, TitleA1>>}
WorkerIdle == [pc |-> "idle", url |-> <<>>, title |-> <<>>, source_id |-> <<>>]

\* the calls that have been entered
Entered == Len(log) + Cardinality({w \in Workers : workers[w].pc = "derived"})

\* faulty variant: a caller enters add_source whatever the other callers do
MayEnterAlways(w) == TRUE

\* serializing callers enter add_source one at a time
MayEnter(w) ==
    locked => \A other \in Workers \ {w} : workers[other].pc = "idle"

InitWorkers ==
    /\ workers = [w \in Workers |-> WorkerIdle]
    /\ locked \in BOOLEAN
    /\ sources = <<>> /\ citations = <<>> /\ log = <<>> /\ ret = NoReturn
    /\ TextIdle /\ ExtractIdle /\ YearIdle /\ ToolsIdle /\ MetaIdle

\* add_source, lines 45-46: source_id = self._generate_source_id(url, title)
DeriveId(w) ==
    /\ workers[w].pc = "idle"
    /\ Entered < MaxCalls
    /\ MayEnter(w)
    /\ \E call \in WorkerCalls :
          workers' = [workers EXCEPT ![w] =
                         [pc |-> "derived", url |-> call[1], title |-> call[2],
                          source_id |-> GenerateSourceId(call[1], call[2], sources)]]
    /\ UNCHANGED <<locked, registryVars>>
    /\ UNCHANGED <<textVars, extractVars, yearVars, toolsVars, metaVars>>

\* add_source, lines 48-59: self.sources[source_id] = metadata; return source_id
StoreSource(w) ==
    /\ workers[w].pc = "derived"
    /\ LET url == workers[w].url
           title == workers[w].title
           source_id == workers[w].source_id
           metadata == [id |-> source_id, url |-> url, title |-> title,
                        author |-> AuthorUnknown, publish_date |-> NoDate,
                        domain |-> Netloc(url).netloc, access_date |-> Today,
                        content_type |-> "webpage"]
       IN /\ sources' = DictPut(sources, metadata)
          /\ log' = Append(log, [url |-> url, title |-> title, raised |-> FALSE,
                                 base |-> BaseId(url, title), id |-> source_id])
          /\ ret' = [op |-> "add_source", raised |-> FALSE, value |-> source_id]
    /\ workers' = [workers EXCEPT ![w] = WorkerIdle]
    /\ UNCHANGED <<locked, citations>>
    /\ UNCHANGED <<textVars, extractVars, yearVars, toolsVars, metaVars>>

NextWorkers == \E w \in Workers : DeriveId(w) \/ StoreSource(w)

SpecWorkers == InitWorkers /\ [][NextWorkers]_vars

\* the specification of the whole module: one of the machines runs
Init ==
    \/ InitText \/ InitExtract \/ InitRegistry \/ InitYear \/ InitTools
    \/ InitCitations \/ InitMetadata \/ InitWorkers
Next ==
    \/ NextText \/ NextExtract \/ NextRegistry \/ NextYear \/ NextTools
    \/ NextCitations \/ FirstAddSource \/ NextMetadata \/ NextWorkers
Spec == Init /\ [][Next]_vars

(***************************************************************************)
(* Claims about extract_content and extract_multiple_urls (SpecExtract).   *)
(***************************************************************************)
StrategyOrder == <<"newspaper3k", "readability-lxml", "beautifulsoup">>
StrategyNames == {StrategyOrder[i] : i \in 1..Len(StrategyOrder)}
AllStrategiesFailed ==
    /\ Len(attempted) = Len(StrategyOrder)
    /\ \A i \in 1..Len(attempted) : attempted[i].outcome \in {"none", "empty"}

\* C1: extract_content never raises: for every URL, malformed ones included,
\* the call ends in a returned document.
C1_NeverRaises == pc # "raised"

\* C2: when all three strategies failed, the returned document has title
\* "Content Extraction Failed", empty content, extraction_method "failed" and
\* metadata.error set.
C2_AllFailedDocument ==
    (pc = "returned" /\ AllStrategiesFailed) =>
        /\ doc.title = "Content Extraction Failed"
        /\ doc.content = <<>>
        /\ doc.extraction_method = "failed"
        /\ doc.error # None

\* C3: the strategies are attempted in the order newspaper3k, readability-lxml,
\* beautifulsoup; a strategy is attempted only after all strategies before it
\* returned none or empty content, none is attempted after one returned
\* non-empty content, and the returned document's extraction_method names the
\* first strategy that returned non-empty content.
C3_FixedOrder ==
    /\ Len(attempted) <= Len(StrategyOrder)
    /\ \A i \in 1..Len(attempted) : attempted[i].strategy = StrategyOrder[i]
    /\ \A i \in 1..(Len(attempted) - 1) : attempted[i].outcome # "content"
    /\ (pc = "newspaper" => Len(attempted) = 0)
    /\ (pc = "readability" => Len(attempted) = 1)
    /\ (pc = "beautifulsoup" => Len(attempted) = 2)
    /\ (pc = "returned" /\ attempted[Len(attempted)].outcome = "content"
          => doc.extraction_method = attempted[Len(attempted)].strategy)

\* C3 witness: the second strategy is the first with content and is the one returned
C3_Witness ==
    /\ pc = "returned" /\ Len(attempted) = 2
    /\ attempted[1].outcome \in {"none", "empty"}
    /\ attempted[2].outcome = "content"
    /\ doc.extraction_method = "readability-lxml"

\* C4: every returned document is a success with non-empty content whose
\* extraction_method names one of the three strategies, or a failure whose
\* extraction_method is "failed".
C4_SuccessOrFailed ==
    pc = "returned" =>
        \/ doc.content # <<>> /\ doc.extraction_method \in StrategyNames
        \/ doc.extraction_method = "failed"

\* C5: extract_multiple_urls completes for every list and returns an entry for
\* every input URL, stored under the URL it was extracted from; a failure on
\* one URL never aborts the batch.
C5_BatchCompletes ==
    /\ batchPc # "raised"
    /\ batchPc = "done" =>
          /\ DOMAIN results = {urls[i] : i \in 1..Len(urls)}
          /\ \A u \in DOMAIN results : results[u].url = u

(***************************************************************************)
(* Claims about _format_result and _generate_summary (SpecText).           *)
(***************************************************************************)
\* C6: for max_length > 0 the content of the formatted document is at most
\* max_length + 3 characters long.
C6_LengthBound ==
    (op = "format" /\ max_length > 0) => Len(out) <= max_length + 3

\* C6 witness: a content longer than the budget, cut and given the ellipsis
C6_Witness ==
    /\ op = "format" /\ max_length > 0 /\ Len(content) > max_length
    /\ Len(out) = max_length + 3

\* the truncation rule of the claim: p is the index of the last '.' among the
\* first m characters; the prefix ends at it when it is late enough
TruncateRule(c, m, boundaryIncluded) ==
    IF Len(c) <= m THEN c
    ELSE LET periods == {i \in 1..m : c[i] = "."}
             p == (CHOOSE i \in periods : \A j \in periods : j <= i) - 1
         IN IF periods # {} /\ (5 * p > 4 * m \/ (boundaryIncluded /\ 5 * p = 4 * m))
            THEN SubSeq(c, 1, p + 1)
            ELSE SubSeq(c, 1, m) \o <<".", ".", ".">>

\* C7 as stated: the prefix ends at the last period when p >= 80% of
\* max_length, the boundary p = 0.8 * max_length included.
C7_BoundaryIncluded ==
    (op = "format" /\ max_length >= 0) => out = TruncateRule(content, max_length, TRUE)

\* C7 as amended: the prefix ends at the last period only when p > 80% of
\* max_length; at p = 0.8 * max_length the first max_length characters are
\* kept and "..." is appended (max_length >= 0).
C7_BoundaryExcluded ==
    (op = "format" /\ max_length >= 0) => out = TruncateRule(content, max_length, FALSE)

\* C7 witness: the last period sits exactly at 80% of the budget
C7_Witness ==
    /\ op = "format" /\ max_length > 0 /\ Len(content) > max_length
    /\ 5 * RFind(Prefix(content, max_length), ".") = 4 * max_length
    /\ out = Prefix(content, max_length) \o <<".", ".", ".">>

\* the sentences of a content: its non-empty fragments between terminators
Sentences(c) ==
    LET fragments == SplitSentences(c)
    IN SelectSeq([i \in 1..Len(fragments) |-> Strip(fragments[i])],
                 LAMBDA f : Len(f) > 0)

\* C8: the summary of an empty content is empty; the summary of a content
\* shorter than the budget is all of its sentences, in order, joined with
\* ". " and ending with a period.
C8_SummaryKeepsAllSentences ==
    op = "summary" =>
        /\ (content = <<>> => out = <<>>)
        /\ (content # <<>> /\ Len(content) < max_length /\ Sentences(content) # <<>>
              => out = Join(Sentences(content), <<".", " ">>) \o <<".">>)

(***************************************************************************)
(* Claims about add_source (SpecRegistry).                                 *)
(***************************************************************************)
Returned == SelectSeq(log, LAMBDA call : ~call.raised)

\* C9: the ids returned by add_source are pairwise distinct and the registry
\* holds one entry per returned call, each still under the id and with the
\* url and title of its call: nothing is overwritten or deduplicated.
C9_NoOverwrite ==
    /\ Len(sources) = Len(Returned)
    /\ \A i, j \in 1..Len(Returned) : i # j => Returned[i].id # Returned[j].id
    /\ \A i \in 1..Len(Returned) :
          /\ sources[i].id = Returned[i].id
          /\ sources[i].url = Returned[i].url
          /\ sources[i].title = Returned[i].title

\* C9 witness: the same URL and title registered twice, two entries stored
C9_Witness ==
    /\ Len(sources) = 2
    /\ sources[1].url = sources[2].url /\ sources[1].title = sources[2].title
    /\ sources[1].id # sources[2].id

\* the n-th id of base B: B, B_1, B_2, ...
Candidate(B, n) == IF n = 0 THEN B ELSE B \o <<"_">> \o Str(n)

\* how many of the first k returned calls derived the base of the k-th
Rank(k) == Cardinality({j \in 1..k : Returned[j].base = Returned[k].base})

\* C10 as stated: the n-th source registered with base B gets B for n = 1 and
\* B_(n-1) for n >= 2, whatever was registered in between.
C10_NthSuffix ==
    \A k \in 1..Len(Returned) : Returned[k].id = Candidate(Returned[k].base, Rank(k) - 1)

\* an earlier source of another base holds an id of the family B, B_1, B_2, ...
Intruded(k) ==
    \E j \in 1..(k - 1), n \in 0..Len(Returned) :
        /\ Returned[j].base # Returned[k].base
        /\ Returned[j].id = Candidate(Returned[k].base, n)

\* C10 as amended: a source with base B gets the first of B, B_1, B_2, ...
\* that no earlier source holds; it is B_(n-1) for the n-th source of base B
\* when no source of another base holds an id of that family.
C10_FirstFree ==
    \A k \in 1..Len(Returned) :
        LET B == Returned[k].base
            earlier == {Returned[j].id : j \in 1..(k - 1)}
        IN /\ \E n \in 0..Len(Returned) :
                 /\ Returned[k].id = Candidate(B, n)
                 /\ \A i \in 0..(n - 1) : Candidate(B, i) \in earlier
           /\ Returned[k].id \notin earlier
           /\ (~Intruded(k) => Returned[k].id = Candidate(B, Rank(k) - 1))

\* C10 witness: the second source of a base gets B_1 although a source of
\* another base was registered in between
C10_Witness ==
    /\ Len(Returned) = 3
    /\ Returned[1].base = Returned[3].base
    /\ Returned[2].base # Returned[1].base
    /\ Returned[3].id = Returned[1].base \o <<"_", "1">>

(***************************************************************************)
(* Claims about _extract_year (SpecYear).                                  *)
(***************************************************************************)
\* the positions of date_string where four characters read 19dd or 20dd
YearPositions == {i \in 1..Len(date_string) : YearDigitsAt(date_string, i)}

\* those of them with no letter, digit or underscore directly before or after
DelimitedYearPositions ==
    {i \in YearPositions :
        /\ i = 1 \/ date_string[i - 1] \notin WordChars
        /\ i + 4 > Len(date_string) \/ date_string[i + 4] \notin WordChars}

FirstYearAmong(positions) ==
    IF date_string = NoDate \/ positions = {} THEN NoYear
    ELSE LET i == CHOOSE k \in positions : \A j \in positions : k <= j
         IN SubSeq(date_string, i, i + 3)

\* C17 as stated: _extract_year returns the first 19dd or 20dd found anywhere
\* in the string, also next to letters or digits, and null exactly when the
\* string is absent, empty or has no such four characters.
C17_FirstYearAnywhere ==
    year # NotCalled => year = FirstYearAmong(YearPositions)

\* C17 as amended: _extract_year returns the first 19dd or 20dd that has no
\* letter, digit or underscore directly before or after it, and null exactly
\* when the string is absent, empty or has no such occurrence.
C17_FirstDelimitedYear ==
    year # NotCalled => year = FirstYearAmong(DelimitedYearPositions)

\* C17 witness: the string holds 19dd or 20dd only next to a letter or digit,
\* and null is returned
C17_Witness ==
    /\ year = NoYear /\ date_string # NoDate
    /\ YearPositions # {} /\ DelimitedYearPositions = {}

(***************************************************************************)
(* Claims about scrape_multiple_urls_adaptive (SpecTools).                 *)
(***************************************************************************)
\* the cap of the claim: 4000, 3000, 2500 for 1, 2, 3 URLs and 2000 for more
ClaimedCap(n) ==
    IF n = 1 THEN 4000 ELSE IF n = 2 THEN 3000 ELSE IF n = 3 THEN 2500 ELSE 2000

\* C19: for n >= 1 URLs and a total T >= 0 every URL is scraped with the same
\* budget b = min(T div n, cap(n)); hence b <= cap(n) and n * b <= T.
C19_AdaptiveBudget ==
    (toolsPc = "returned" /\ Len(tool_urls) >= 1 /\ total_target_length >= 0) =>
        LET n == Len(tool_urls)
            b == Min(total_target_length \div n, ClaimedCap(n))
        IN /\ budgets = [i \in 1..n |-> b]
           /\ \A i \in 1..n : budgets[i] <= ClaimedCap(n)
           /\ \A i \in 1..n : n * budgets[i] <= total_target_length

\* C19 witness: two URLs and a total whose half is below the cap
C19_Witness ==
    /\ toolsPc = "returned" /\ Len(tool_urls) = 2
    /\ total_target_length = 5
    /\ budgets = <<2, 2>>

(***************************************************************************)
(* Claims about the CitationManager operations (SpecCitations).            *)
(***************************************************************************)
\* the host component of a URL: its netloc without the user-info part that
\* ends at the last '@' and without the port that follows ':'
HostOf(url) ==
    LET netloc == Netloc(url).netloc
        hostport == Suffix(netloc, RFind(netloc, "@") + 1)
        colon == Find(hostport, ":")
    IN IF colon = -1 THEN hostport ELSE Prefix(hostport, colon)

\* C11: every stored source's domain is the host component of its url, the
\* host only when the url also carries user-info or a port.
C11_DomainIsHost ==
    \A i \in 1..Len(sources) : sources[i].domain = HostOf(sources[i].url)

\* C12: no operation changes the id or any field of a source that is already
\* stored; add_source adds exactly one entry behind the existing ones and
\* every other operation leaves the registry as it is.
C12_StoredSourcesFrozen ==
    [][/\ Len(sources') >= Len(sources)
       /\ \A i \in 1..Len(sources) : sources'[i] = sources[i]
       /\ IF ret'.op = "add_source" /\ ~ret'.raised
          THEN Len(sources') = Len(sources) + 1
          ELSE sources' = sources]_vars

\* C12 witness: a second source has been registered and a later operation of
\* another kind has run
C12_Witness ==
    /\ Len(sources) = 2
    /\ sources[1].access_date = Today
    /\ ret.op = "generate_bibliography"

\* C13: format_citation of an id that is not registered returns exactly
\* "[Source not found: " + id + "]" for every style, raises nothing and
\* leaves the registry and the citation list unchanged.
C13_SourceNotFound ==
    [][(ret'.op = "format_citation" /\ ret'.source_id \notin Ids(sources)) =>
          /\ ret'.value = <<"[", "Source", " ", "not", " ", "found", ":", " ">> \o
                              ret'.source_id \o <<"]">>
          /\ ~ret'.raised
          /\ sources' = sources
          /\ citations' = citations]_vars

\* C13 witness: the sentinel was returned by a manager that holds sources
C13_Witness ==
    /\ ret.op = "format_citation"
    /\ ret.source_id = MissingId
    /\ ret.style = "ieee"
    /\ Len(sources) >= 1

\* what an in-text citation shows for the year: the extracted year, or the
\* text "None" when publish_date yields none
ShownYear(source) ==
    IF ExtractYear(source.publish_date) = NoYear THEN <<"N", "o", "n", "e">>
    ELSE ExtractYear(source.publish_date)

\* the author, or the title when the author is "Unknown"
AuthorOrTitle(source) ==
    IF source.author = <<"Unknown">> THEN source.title ELSE source.author

\* a format_in_text_citation call for a registered source has returned
InTextReturned ==
    ret.op = "format_in_text_citation" /\ ret.source_id \in Ids(sources)

\* C14 as stated: APA and Harvard both give "(X, year)", MLA gives "(X)",
\* Chicago and IEEE give "(id)".
C14_HarvardLikeApa ==
    InTextReturned =>
        LET source == Lookup(sources, ret.source_id)
            X == AuthorOrTitle(source)
        IN ret.value =
              CASE ret.style \in {"apa", "harvard"} ->
                      <<"(">> \o X \o <<",", " ">> \o ShownYear(source) \o <<")">>
                [] ret.style = "mla" -> <<"(">> \o X \o <<")">>
                [] OTHER -> <<"(">> \o ret.source_id \o <<")">>

\* C14 amended: APA gives "(X, Y)" and Harvard "(X Y)" with a space and no
\* comma, Y being the year or the text "None"; MLA gives "(X)"; Chicago and
\* IEEE give "(id)".
C14_InTextForms ==
    InTextReturned =>
        LET source == Lookup(sources, ret.source_id)
            X == AuthorOrTitle(source)
        IN ret.value =
              CASE ret.style = "apa" ->
                      <<"(">> \o X \o <<",", " ">> \o ShownYear(source) \o <<")">>
                [] ret.style = "harvard" ->
                      <<"(">> \o X \o <<" ">> \o ShownYear(source) \o <<")">>
                [] ret.style = "mla" -> <<"(">> \o X \o <<")">>
                [] OTHER -> <<"(">> \o ret.source_id \o <<")">>

\* C14 witness: a Harvard in-text citation of a source without an author
C14_Witness ==
    /\ InTextReturned
    /\ ret.style = "harvard"
    /\ Lookup(sources, ret.source_id).author = <<"Unknown">>

\* the name of a style in the header of a bibliography
StyleName(style) ==
    CASE style = "apa" -> <<"A", "P", "A">>
      [] style = "mla" -> <<"M", "L", "A">>
      [] style = "chicago" -> <<"C", "H", "I", "C", "A", "G", "O">>
      [] style = "harvard" -> <<"H", "A", "R", "V", "A", "R", "D">>
      [] style = "ieee" -> <<"I", "E", "E", "E">>

\* the lines "<n>. <format_citation(id, style)>\n" of the sources from n on
RECURSIVE NumberedLines(_, _, _)
NumberedLines(srcs, style, n) ==
    IF n > Len(srcs) THEN <<>>
    ELSE Str(n) \o <<".", " ">> \o FormatCitation(srcs, srcs[n].id, style) \o <<"\n">> \o
         NumberedLines(srcs, style, n + 1)

\* C15: generate_bibliography returns "No sources cited." for an empty
\* registry, and otherwise the header followed by one numbered line per
\* source, numbered from 1 in the order of registration.
C15_Bibliography ==
    ret.op = "generate_bibliography" =>
        ret.value =
           IF Len(sources) = 0 THEN <<"No", " ", "sources", " ", "cited", ".">>
           ELSE <<"References", " ", "(">> \o StyleName(ret.style) \o
                <<" ", "Style", ")", ":", "\n", "\n">> \o
                NumberedLines(sources, ret.style, 1)

\* C15 witness: a bibliography of two sources whose citations differ
C15_Witness ==
    /\ ret.op = "generate_bibliography"
    /\ ret.style = "chicago"
    /\ Len(sources) = 2
    /\ sources[1].url # sources[2].url

(***************************************************************************)
(* Claims about get_source_statistics (SpecRegistry).                      *)
(***************************************************************************)
\* the value of vals that occurs most often, the one that occurs first among
\* those that occur equally often; None for no values
EarliestMostFrequent(vals) ==
    IF Len(vals) = 0 THEN <<"None">>
    ELSE LET Count(v) == Cardinality({i \in 1..Len(vals) : vals[i] = v})
             best == CHOOSE i \in 1..Len(vals) :
                        /\ \A j \in 1..Len(vals) : Count(vals[j]) <= Count(vals[i])
                        /\ \A j \in 1..(i - 1) : Count(vals[j]) < Count(vals[i])
         IN vals[best]

\* C16: most_common_domain and most_common_author are the most frequent
\* value, the earliest registered one among equally frequent values, and None
\* for an empty registry.
C16_MostCommon ==
    ret.op = "get_source_statistics" =>
        /\ ret.value.most_common_domain =
              EarliestMostFrequent([i \in 1..Len(sources) |-> sources[i].domain])
        /\ ret.value.most_common_author =
              EarliestMostFrequent([i \in 1..Len(sources) |-> sources[i].author])

\* C16 witness: the most common domain is not the domain registered first,
\* and the most common author is
C16_Witness ==
    /\ ret.op = "get_source_statistics"
    /\ Len(sources) = 3
    /\ ret.value.most_common_domain # sources[1].domain
    /\ ret.value.most_common_author = sources[1].author
    /\ sources[2].author # sources[1].author

(***************************************************************************)
(* Claims about the citation formatters (SpecCitations).                   *)
(***************************************************************************)
\* a format_citation call for a registered source has returned
CitationReturned ==
    ret.op = "format_citation" /\ ret.source_id \in Ids(sources)

\* C18: the APA citation of a source with a known author is, joined by single
\* spaces: the author; "(<year>)" or "(n.d.)"; the cleaned title followed by
\* "."; and "Retrieved <access_date> from <url>".
C18_ApaComponents ==
    (CitationReturned /\ ret.style = "apa" /\
     Lookup(sources, ret.source_id).author # <<"Unknown">>) =>
        LET source == Lookup(sources, ret.source_id)
            found == ExtractYear(source.publish_date)
        IN ret.value =
              source.author \o <<" ">> \o
              (IF found # NoYear THEN <<"(">> \o found \o <<")">>
               ELSE <<"(", "n", ".", "d", ".", ")">>) \o <<" ">> \o
              CleanTitle(source.title) \o <<".">> \o <<" ">> \o
              <<"Retrieved", " ">> \o source.access_date \o
              <<" ", "from", " ">> \o source.url

\* C18 witness: the APA citation of a source with an author, a year and a
\* title that cleaning changes
C18_Witness ==
    /\ CitationReturned /\ ret.style = "apa"
    /\ Lookup(sources, ret.source_id).author = <<"Jane Doe">>
    /\ ExtractYear(Lookup(sources, ret.source_id).publish_date) = <<"2", "0", "2", "3">>
    /\ CleanTitle(Lookup(sources, ret.source_id).title) =
          <<"T", "o", "p", " ", "N", "e", "w", "s", " ", "T", "o", "d", "a", "y">>

\* sub occurs in s as a run of consecutive characters
ContainsSeq(s, sub) ==
    \E i \in 1..(Len(s) - Len(sub) + 1) : SubSeq(s, i, i + Len(sub) - 1) = sub

NoDateMark == <<"n", ".", "d", ".">>

\* C20 as stated: in each of the five styles the citation contains the year
\* when publish_date yields one and "n.d." when it does not, and the url.
C20_YearOrNoDate ==
    CitationReturned =>
        LET source == Lookup(sources, ret.source_id)
            found == ExtractYear(source.publish_date)
        IN /\ found # NoYear => ContainsSeq(ret.value, found)
           /\ found = NoYear => ContainsSeq(ret.value, NoDateMark)
           /\ ContainsSeq(ret.value, source.url)

\* C20 amended: in each of the five styles the citation contains the url, and
\* the year when publish_date yields one; when it yields none, the APA and
\* Harvard citations contain "n.d." and the MLA, Chicago and IEEE citations
\* do not.
C20_YearWhenFound ==
    CitationReturned =>
        LET source == Lookup(sources, ret.source_id)
            found == ExtractYear(source.publish_date)
        IN /\ found # NoYear => ContainsSeq(ret.value, found)
           /\ found = NoYear =>
                 (ContainsSeq(ret.value, NoDateMark) <=> ret.style \in {"apa", "harvard"})
           /\ ContainsSeq(ret.value, source.url)

\* C20 witness: an IEEE citation of a source whose publish_date yields no year
C20_Witness ==
    /\ CitationReturned /\ ret.style = "ieee"
    /\ ExtractYear(Lookup(sources, ret.source_id).publish_date) = NoYear
    /\ ~ContainsSeq(ret.value, NoDateMark)

(***************************************************************************)
(* Further claims about _generate_summary (SpecText).                      *)
(***************************************************************************)
\* the longest prefix of sentences whose lengths add up to less than m
RECURSIVE LongestFitting(_, _, _)
LongestFitting(sentences, total, m) ==
    IF Len(sentences) = 0 \/ total + Len(Head(sentences)) >= m THEN <<>>
    ELSE <<Head(sentences)>> \o
         LongestFitting(Tail(sentences), total + Len(Head(sentences)), m)

\* C21: the summary is made of exactly the longest prefix of the sentences of
\* the content whose running total of lengths stays under the budget, an
\* empty fragment between terminators not ending the accumulation; the
\* lengths of the included sentences add up to less than the budget.
C21_LongestFittingPrefix ==
    (op = "summary" /\ content # <<>>) =>
        LET included == LongestFitting(Sentences(content), 0, max_length)
        IN out = IF included = <<>> THEN <<>>
                 ELSE Join(included, <<".", " ">>) \o <<".">>

\* C29: for a budget max_length > 0 the summary is at most max_length
\* characters long, separators and trailing period included.
C29_SummaryWithinBudget ==
    (op = "summary" /\ max_length > 0) => Len(out) <= max_length

(***************************************************************************)
(* Further claims about scrape_multiple_urls_adaptive (SpecTools).         *)
(***************************************************************************)
\* C30: a call with an empty URL list returns an empty mapping and raises no
\* error.
C30_EmptyListReturnsEmpty ==
    (Len(tool_urls) = 0 /\ toolsPc # "called") =>
        (toolsPc = "returned" /\ scraped_content = <<>>)

(***************************************************************************)
(* Further claims about the CitationManager operations (SpecCitations).    *)
(***************************************************************************)
\* C26: every citation of the citation list holds a source that is stored in
\* the registry; add_citation on an id that is not registered raises and
\* leaves the citation list and the registry unchanged; no operation removes
\* a source.
C26_CitationsReferToSources ==
    /\ [](\A i \in 1..Len(citations) :
             \E j \in 1..Len(sources) : sources[j] = citations[i].source)
    /\ [][(ret'.op = "add_citation" /\ ret'.source_id \notin Ids(sources)) =>
             (ret'.raised /\ citations' = citations /\ sources' = sources)]_vars
    /\ [][(ret'.op = "add_citation" /\ ret'.source_id \in Ids(sources)) =>
             (~ret'.raised /\ Len(citations') = Len(citations) + 1)]_vars
    /\ [][\A id \in Ids(sources) : id \in Ids(sources')]_vars

\* C26 witness: add_citation has raised on a manager that holds a citation
C26_Witness ==
    /\ ret.op = "add_citation" /\ ret.raised
    /\ Len(citations) = 1
    /\ citations[1].source = sources[1]

\* the sum of the counts of a dict of counts
RECURSIVE SumCounts(_)
SumCounts(d) == IF Len(d) = 0 THEN 0 ELSE Head(d).count + SumCounts(Tail(d))

\* C28: get_source_statistics reports the number of registered sources and
\* the number of add_citation calls that returned; the domain counts and the
\* author counts each add up to total_sources, the year counts add up to the
\* number of sources whose publish_date yields a year; the call changes
\* nothing in the registry.
C28_StatisticsTotals ==
    /\ [](ret.op = "get_source_statistics" =>
            /\ ret.value.total_sources = Len(sources)
            /\ ret.value.total_citations = Len(citations)
            /\ SumCounts(ret.value.domains) = ret.value.total_sources
            /\ SumCounts(ret.value.authors) = ret.value.total_sources
            /\ SumCounts(ret.value.years) =
                  Cardinality({i \in 1..Len(sources) :
                                  ExtractYear(sources[i].publish_date) # NoYear})
            /\ SumCounts(ret.value.years) <= ret.value.total_sources)
    /\ [][Len(citations') =
             Len(citations) +
             (IF ret'.op = "add_citation" /\ ~ret'.raised THEN 1 ELSE 0)]_vars
    /\ [][ret'.op = "get_source_statistics" =>
             (sources' = sources /\ citations' = citations)]_vars

\* C28 witness: statistics of a manager with a source, with a year, and a
\* citation
C28_Witness ==
    /\ ret.op = "get_source_statistics"
    /\ ret.value.total_sources = 1
    /\ ret.value.total_citations = 1
    /\ SumCounts(ret.value.years) = 1

(***************************************************************************)
(* Claims about the candidate id (SpecCandidate).                          *)
(***************************************************************************)
\* D + "_" + the "_"-join of S: D the host of url without a leading "www.",
\* S the first three whitespace-separated tokens of title, each lower-cased
\* and with its punctuation removed
ClaimedCandidate(url, title) ==
    LET host == HostOf(url)
        D == IF Prefix(host, 4) = <<"w", "w", "w", ".">> THEN Suffix(host, 4) ELSE host
        tokens == Prefix(SplitWords(title), 3)
        S == [i \in 1..Len(tokens) |-> StripPunctuation(LowerStr(tokens[i]))]
    IN D \o <<"_">> \o Join(S, <<"_">>)

\* C22: the candidate id of add_source for (url, title) is the host without a
\* leading "www.", then "_", then the first three tokens of the title,
\* lower-cased and without punctuation, joined by "_".
C22_CandidateId ==
    \A i \in 1..Len(log) :
        ~log[i].raised =>
            /\ log[i].base = ClaimedCandidate(log[i].url, log[i].title)
            /\ log[i].id = log[i].base

(***************************************************************************)
(* Claims about the order of the batch and its requests (SpecExtract).     *)
(***************************************************************************)
\* the positions of the trace where the call-th extraction requested its url
GetsOfCall(call) ==
    {k \in DOMAIN trace : trace[k].ev = "get" /\ trace[k].call = call}

\* C27: a failed fetch is never retried: within one extract_content call each
\* strategy is attempted at most once, each attempt issues at most one GET,
\* so the url is requested at most once per strategy and at most three times.
C27_NoRetry ==
    /\ \A i, j \in DOMAIN attempted :
          attempted[i].strategy = attempted[j].strategy => i = j
    /\ \A call \in 1..Len(urls) :
          /\ \A k, l \in GetsOfCall(call) : trace[k].strategy = trace[l].strategy => k = l
          /\ Cardinality(GetsOfCall(call)) <= Len(StrategyOrder)
    /\ (batchPc = "extracting" => Cardinality(GetsOfCall(idx)) <= Len(attempted))

\* all three strategies were attempted after two failed fetches, each
\* requested the url once
C27_Witness ==
    /\ pc = "returned" /\ Len(attempted) = 3
    /\ attempted[1].outcome = "none" /\ attempted[2].outcome = "none"
    /\ Cardinality(GetsOfCall(idx)) = 3

\* the documents extract_content(url, m) can return when it is called alone
StandaloneDocuments(url, m) ==
    LET early == {ReturnFormatted(r, url, m) :
                     r \in {x \in ExtractWithNewspaper(url) \cup ExtractWithReadability(url) :
                               Succeeded(x)}}
        last == {IF r.raised THEN ExtractContentExcept(url, r.error)
                 ELSE ReturnFormatted(r.value, url, m) :
                     r \in ExtractWithBeautifulSoup(url)}
    IN {r.value : r \in {x \in early \cup last : ~x.raised}}

\* C24: extract_multiple_urls processes the urls one after another in list
\* order: the extraction of url i+1 starts only after that of url i returned,
\* its result was stored and the delay elapsed; two extractions are never in
\* progress; the result of a url does not depend on the urls before it.
C24_Sequential ==
    /\ \A k \in DOMAIN trace :
          trace[k].ev = "start" =>
             /\ trace[k].call \in 1..Len(urls)
             /\ (trace[k].call = 1 => k = 1)
             /\ (trace[k].call > 1 =>
                    /\ k > 3
                    /\ trace[k - 1] = Event("sleep", trace[k].call - 1, "-")
                    /\ trace[k - 2] = Event("store", trace[k].call - 1, "-")
                    /\ trace[k - 3] = Event("return", trace[k].call - 1, "-"))
    /\ \A k, l \in DOMAIN trace :
          (k < l /\ trace[k].ev = "start" /\ trace[l].ev = "start") =>
             /\ trace[k].call < trace[l].call
             /\ \E m \in (k + 1)..(l - 1) : trace[m] = Event("return", trace[k].call, "-")
    /\ \A k \in DOMAIN trace :
          trace[k].ev = "get" => \E s \in 1..(k - 1) :
             /\ trace[s] = Event("start", trace[k].call, "-")
             /\ \A m \in s..k : trace[m].ev \notin {"return", "raise"}
    /\ \A k \in DOMAIN trace :
          trace[k].ev = "store" => urls[trace[k].call] \in DOMAIN results
    /\ \A u \in DOMAIN results : results[u] \in StandaloneDocuments(u, max_length_per_url)
    /\ (pc = "returned" => doc \in StandaloneDocuments(urls[idx], max_length_per_url))

\* the second extraction has started, after the first returned, was stored
\* and the delay elapsed
C24_Witness ==
    /\ batchPc = "extracting" /\ idx = 2
    /\ trace[Len(trace)] = Event("start", 2, "-")
    /\ trace[Len(trace) - 1] = Event("sleep", 1, "-")
    /\ urls[1] \in DOMAIN results

(***************************************************************************)
(* Claims about the page metadata (SpecMetadata).                          *)
(***************************************************************************)
\* the position of the first selector that finds an element, 0 if none does
FirstMatch(selectors) ==
    LET matching == {i \in DOMAIN selectors : html[selectors[i]] # NoElement}
    IN IF matching = {} THEN 0 ELSE CHOOSE i \in matching : \A j \in matching : i <= j

\* the selectors of a list up to and including the first that matches
ConsultedOf(selectors) ==
    IF FirstMatch(selectors) = 0 THEN selectors
    ELSE SubSeq(selectors, 1, FirstMatch(selectors))

\* the value an element carries: empty for a missing attribute and for
\* text of white space only
CarriedValue(elem) ==
    IF elem.value = AttributeMissing THEN <<>> ELSE Strip(elem.value)

\* C23: for author and for publish date separately the selectors are tried
\* in order and only the first that matches determines the value; later ones
\* are never consulted, even when the matched element carries an empty value
\* (the field then keeps "Unknown" / null); a date string that cannot be
\* parsed is stored verbatim.
C23_FirstMatchWins ==
    metaPc = "done" =>
        LET a == FirstMatch(AuthorSelectors)
            d == FirstMatch(DateSelectors)
        IN /\ consulted = ConsultedOf(AuthorSelectors) \o ConsultedOf(DateSelectors)
           /\ page_metadata.author =
                 IF a = 0 THEN AuthorUnknown
                 ELSE IF CarriedValue(html[AuthorSelectors[a]]) = <<>> THEN AuthorUnknown
                 ELSE CarriedValue(html[AuthorSelectors[a]])
           /\ page_metadata.publish_date =
                 IF d = 0 THEN NoDate
                 ELSE IF CarriedValue(html[DateSelectors[d]]) = <<>> THEN NoDate
                 ELSE IF CarriedValue(html[DateSelectors[d]]) = DateParsable THEN DateIso
                 ELSE CarriedValue(html[DateSelectors[d]])

(***************************************************************************)
(* Claims about concurrent add_source calls (SpecWorkers).                 *)
(***************************************************************************)
\* every returned id is distinct
ReturnedIdsUnique ==
    \A i, j \in 1..Len(log) : log[i].id = log[j].id => i = j

\* every call that returned has its own entry in the registry
NoLostSource ==
    /\ Len(sources) = Len(log)
    /\ \A i \in 1..Len(log) :
          \E k \in 1..Len(sources) :
             /\ sources[k].id = log[i].id
             /\ sources[k].url = log[i].url /\ sources[k].title = log[i].title

\* C25: add_source derives a free id and then stores under it, without a
\* lock: id uniqueness and no-lost-source hold for every serialized order of
\* calls; concurrent calls need mutual exclusion, because between one call's
\* derivation and its store a second call with the same base id derives the
\* same id.
C25_SerializedOrInterleaved ==
    /\ [](locked => (ReturnedIdsUnique /\ NoLostSource))
    /\ [](\A w \in Workers : workers[w].pc = "derived" /\ locked
             => workers[w].source_id \notin Ids(sources))
    /\ [](\A v, w \in Workers :
             (v # w /\ workers[v].pc = "derived" /\ workers[w].pc = "derived"
                /\ workers[v].source_id = workers[w].source_id)
             => ~locked)
    /\ [][(Len(log') = Len(log) + 1 /\ Len(sources') = Len(sources))
             => (~locked /\ ret'.value \in Ids(sources))]_vars

\* without a lock two calls with the same base id derived the same id before
\* either stored: both returned it and the registry holds one source
C25_Witness ==
    /\ ~locked
    /\ Len(log) = 2 /\ Len(sources) = 1
    /\ log[1].id = log[2].id /\ log[1].base = log[2].base
    /\ log[1].url # log[2].url

====
